---- MODULE Spec2Model ----
(***************************************************************************)
(* The telemetry interpretation and aggregation engine of the Iridium site *)
(* survey tool (v4): the reactive store, the +CIEV line parser, the        *)
(* coverage grid aggregator, the service-uptime tracker and the session    *)
(* save/load/import code, as a state machine.                              *)
(*                                                                         *)
(* Representation.                                                         *)
(*  - Time is in abstract milliseconds; Date.now() is the variable now.    *)
(*  - Angles are integers in tenths of a degree (8 degrees = 80).          *)
(*  - A JS Set and a JS Map are insertion-ordered sequences without        *)
(*    duplicate elements / keys.                                           *)
(*  - null/undefined and NaN are the reserved numbers Null and NaN.        *)
(*  - A grid key `${azIdx}_${elIdx}` is the pair <<azIdx, elIdx>>.         *)
(***************************************************************************)
EXTENDS Integers, Sequences, FiniteSets, TLC

----------------------------------------------------------------------------
(* Bounds of the model *)

\* Date.now() runs from 1 to MaxTime while a survey is saved (SpecSave).
MaxTime == 2
\* Date.now() runs from 1 to MaxUptimeTime in the uptime tracker (SpecUptime).
MaxUptimeTime == 2
\* Date.now() advances MaxResumeTicks times by 50 s when a survey is resumed
\* (SpecResume).
MaxResumeTicks == 3
\* Lines delivered by the serial port to processLine or read from log files.
MaxLines == 2
\* Service lines delivered or read from log files in the uptime tracker
\* (SpecUptime).
MaxEvents == 3
MaxHorizonHours == 2
MaxTurns == 2
\* Calls of startCIER that are waiting in their delay at the same time.
MaxPending == 2
\* Date.now() advances MaxLoggingTicks times by 300 ms while logging is
\* started and stopped (SpecLogging).
MaxLoggingTicks == 2
ElevationMargin == 100

----------------------------------------------------------------------------
(* JavaScript values *)

Null == -1000
NaN == -2000

\* JS truthiness of a number-or-null value (the `x ? a : b` and `x || d` tests).
Truthy(v) == v # Null /\ v # NaN /\ v # 0

\* `v || 0`
OrZero(v) == IF Truthy(v) THEN v ELSE 0

\* JSON.parse(JSON.stringify(v)) of a number: NaN is written as null.
JsonNumber(v) == IF v = NaN THEN Null ELSE v

Range(s) == {s[i] : i \in 1..Len(s)}

\* Set.prototype.add on an insertion-ordered set.
SetAdd(s, x) == IF x \in Range(s) THEN s ELSE Append(s, x)

\* new Set(array): the elements are added in order.
RECURSIVE NewSet(_)
NewSet(arr) == IF arr = <<>> THEN <<>>
               ELSE SetAdd(NewSet(SubSeq(arr, 1, Len(arr) - 1)), arr[Len(arr)])

\* Array.from(set): the elements in insertion order.
ArrayFrom(set) == set

----------------------------------------------------------------------------
(* Configuration (config.js) *)

sessionVersion == 3

\* CONFIG.elevationBands, min and max in tenths of a degree.
elevationBands == << [min |-> 8 * 10,  max |-> 14 * 10, horizon |-> TRUE],
                     [min |-> 14 * 10, max |-> 20 * 10, horizon |-> TRUE],
                     [min |-> 20 * 10, max |-> 35 * 10, horizon |-> FALSE],
                     [min |-> 35 * 10, max |-> 50 * 10, horizon |-> FALSE],
                     [min |-> 50 * 10, max |-> 65 * 10, horizon |-> FALSE],
                     [min |-> 65 * 10, max |-> 80 * 10, horizon |-> FALSE],
                     [min |-> 80 * 10, max |-> 90 * 10, horizon |-> FALSE] >>

\* CONFIG.azimuthSectors
azimuthSectors == <<"N", "NE", "E", "SE", "S", "SW", "W", "NW">>

\* CONFIG.minFunctionalElevation
minFunctionalElevation == 8 * 10

\* CONFIG.defaultLocation (Cardiff), in 1e-5 degrees.
defaultLocation == [lat |-> 5149530, lon |-> -317047]

\* A second site a user may enter: latitude 0, longitude 0.
equatorLocation == [lat |-> 0, lon |-> 0]

\* A third one, on the antimeridian: latitude 50, longitude -180.
antimeridianLocation == [lat |-> 5000000, lon |-> -18000000]

----------------------------------------------------------------------------
(* The store (state/store.js) and its environment *)

VARIABLES
    now,                \* Date.now()
    isLogging,          \* store.isLogging
    startTime,          \* store.startTime (Null before the first start)
    loadedDuration,     \* store.loadedDuration
    loadedUptime,       \* store.loadedUptime
    loadedOutageCount,  \* store.loadedOutageCount
    observer,           \* store.observer
    rssiReports,        \* store.rssiReports
    svBeamReports,      \* store.svBeamReports
    satellites,         \* store.satellites (Map svId -> {reports, beams})
    coverageGrid,       \* store.coverageGrid
    rawLines,           \* store.rawLines (the number of lines kept)
    serviceEvents,      \* store.serviceEvents
    serviceState,       \* store.serviceState
    savedFile,          \* the last file written by downloadFile (<<>> if none)
    imports,            \* the number of log files imported so far
    delivered,          \* the number of lines the serial port delivered so far
    toast,              \* the last toast emitted
    lastOp,             \* history: the operation of the last step and its input
    savedAt,            \* history: the store and the uptime at the last save
    scenario,           \* history: progress along load -> start -> online
    probe,              \* a call of a pure function: its name, arguments, result
    durationInterval,   \* ui.js: the handle of the duration timer (Null if none)
    predictionInterval, \* predictor.js: the handle of the prediction timer
    intervals,          \* the timers setInterval has scheduled: [id, callback]
    cierPending,        \* the calls of startCIER in their delay: when each is due
    antennaFaultEvents, \* the number of DATA_ANTENNA_FAULT events emitted
    previousFault,      \* history: the fault flag of the last indicator-2 line
    isConnected,        \* store.isConnected
    disconnecting       \* serial.js: how far a call of disconnect() has come

\* The fields of the store, for frame conditions.
store == << isLogging, startTime, loadedDuration, loadedUptime,
            loadedOutageCount, observer, rssiReports, svBeamReports,
            satellites, coverageGrid, rawLines, serviceEvents, serviceState >>

vars == << now, isLogging, startTime, loadedDuration, loadedUptime,
           loadedOutageCount, observer, rssiReports, svBeamReports,
           satellites, coverageGrid, rawLines, serviceEvents, serviceState,
           savedFile, imports, delivered, toast, lastOp, savedAt, scenario,
           probe, durationInterval, predictionInterval, intervals, cierPending,
           antennaFaultEvents, previousFault, isConnected, disconnecting >>

\* The serial connection.
serialVars == << isConnected, disconnecting >>

\* The timers of the page.
timerVars == << durationInterval, predictionInterval, intervals >>

\* What the session operations leave alone: the timers, the pending starts,
\* the antenna-fault events and the serial connection.
pageVars == << durationInterval, predictionInterval, intervals, cierPending,
              antennaFaultEvents, previousFault, isConnected, disconnecting >>

\* The 56 keys of the grid.
GridKeys == (0..(Len(azimuthSectors) - 1)) \X (0..(Len(elevationBands) - 1))

\* createEmptyCoverageGrid()
createEmptyCoverageGrid == [k \in GridKeys |-> [count |-> 0, satellites |-> <<>>]]

----------------------------------------------------------------------------
(* Service uptime (processing/assessment.js) *)

\* One step of Array.prototype.sort by timestamp (stable): e goes after every
\* element whose timestamp is not larger.
RECURSIVE InsertByTimestamp(_, _)
InsertByTimestamp(sorted, e) ==
    IF sorted = <<>> THEN <<e>>
    ELSE IF sorted[Len(sorted)].timestamp <= e.timestamp THEN Append(sorted, e)
    ELSE Append(InsertByTimestamp(SubSeq(sorted, 1, Len(sorted) - 1), e),
                sorted[Len(sorted)])

\* A variant of SortEvents that walks the events in arrival order.
SortEventsNoSort(evs) == evs

\* [...serviceEvents].sort((a, b) => a.timestamp - b.timestamp)
RECURSIVE SortEvents(_)
SortEvents(evs) ==
    IF evs = <<>> THEN <<>>
    ELSE InsertByTimestamp(SortEvents(SubSeq(evs, 1, Len(evs) - 1)), evs[Len(evs)])

\* The body of the loop over sortedEvents.
WalkStep(acc, event) ==
    IF event.available
    THEN [acc EXCEPT !.lastOnTime = event.timestamp]
    ELSE IF acc.lastOnTime # Null
         THEN [sessionUptimeMs |-> acc.sessionUptimeMs + event.timestamp - acc.lastOnTime,
               lastOnTime |-> Null,
               sessionOutageCount |-> acc.sessionOutageCount + 1]
         ELSE acc

RECURSIVE Walk(_, _)
Walk(acc, sortedEvents) ==
    IF sortedEvents = <<>> THEN acc
    ELSE Walk(WalkStep(acc, Head(sortedEvents)), Tail(sortedEvents))

\* The walk of calculateServiceUptime over the sorted events.
WalkEvents(evs) ==
    Walk([sessionUptimeMs |-> 0, lastOnTime |-> Null, sessionOutageCount |-> 0],
         SortEvents(evs))

\* A variant of CalculateServiceUptimeOf that leaves the carried-over uptime
\* and outage count out of the totals.
CalculateServiceUptimeNoCarryOver(evs, start, ldDuration, ldUptime, ldOutages, t) ==
    LET w == WalkEvents(evs)
        sessionUptimeMs == IF w.lastOnTime # Null
                           THEN w.sessionUptimeMs + t - w.lastOnTime
                           ELSE w.sessionUptimeMs
        currentSessionMs == IF Truthy(start) THEN t - start ELSE 0
        totalMs == OrZero(ldDuration) + currentSessionMs
    IN  IF totalMs <= 0
        THEN [isNull |-> TRUE, uptimeMs |-> 0, totalMs |-> 0, outageCount |-> 0,
              percentage |-> [num |-> 0, den |-> 1]]
        ELSE [isNull |-> FALSE, uptimeMs |-> sessionUptimeMs, totalMs |-> totalMs,
              outageCount |-> w.sessionOutageCount,
              percentage |-> [num |-> sessionUptimeMs * 100, den |-> totalMs]]

\* calculateServiceUptime() on the given store fields at the instant t.
\* isNull stands for the null result; percentage is the fraction
\* uptimeMs * 100 / totalMs, kept as numerator and denominator.
CalculateServiceUptimeOf(evs, start, ldDuration, ldUptime, ldOutages, t) ==
    LET w == WalkEvents(evs)
        sessionUptimeMs == IF w.lastOnTime # Null
                           THEN w.sessionUptimeMs + t - w.lastOnTime
                           ELSE w.sessionUptimeMs
        currentSessionMs == IF Truthy(start) THEN t - start ELSE 0
        totalMs == OrZero(ldDuration) + currentSessionMs
        totalUptimeMs == OrZero(ldUptime) + sessionUptimeMs
        totalOutageCount == OrZero(ldOutages) + w.sessionOutageCount
    IN  IF totalMs <= 0
        THEN [isNull |-> TRUE, uptimeMs |-> 0, totalMs |-> 0, outageCount |-> 0,
              percentage |-> [num |-> 0, den |-> 1]]
        ELSE [isNull |-> FALSE, uptimeMs |-> totalUptimeMs, totalMs |-> totalMs,
              outageCount |-> totalOutageCount,
              percentage |-> [num |-> totalUptimeMs * 100, den |-> totalMs]]

\* calculateServiceUptime() on the current store.
calculateServiceUptime ==
    CalculateServiceUptimeOf(serviceEvents, startTime, loadedDuration,
                             loadedUptime, loadedOutageCount, now)

----------------------------------------------------------------------------
(* Coverage analysis and verdict (processing/coverage.js) *)

\* CONFIG.minReportsThresholds, the hours in milliseconds; the last entry
\* (hours: Infinity) holds for every duration.
minReportsThresholds ==
    << [ms |-> 2 * 3600000,  infinite |-> FALSE, minReports |-> 3],
       [ms |-> 8 * 3600000,  infinite |-> FALSE, minReports |-> 10],
       [ms |-> 24 * 3600000, infinite |-> FALSE, minReports |-> 20],
       [ms |-> 0,            infinite |-> TRUE,  minReports |-> 30] >>

\* CONFIG.assessment.clearThreshold and partialThreshold, in percent.
clearThreshold == 70
partialThreshold == 40

\* A variant of getMinObservationsThreshold that does not scale with the
\* duration.
getMinObservationsThresholdFirst(totalElapsed) == minReportsThresholds[1].minReports

\* A variant of getMinObservationsThreshold whose cutoffs belong to the
\* lower band (surveyHours <= threshold.hours).
getMinObservationsThresholdInclusive(totalElapsed) ==
    LET hits == {i \in 1..Len(minReportsThresholds) :
                    \/ minReportsThresholds[i].infinite
                    \/ totalElapsed <= minReportsThresholds[i].ms}
    IN  minReportsThresholds[CHOOSE i \in hits : \A j \in hits : i <= j].minReports

\* getMinObservationsThreshold(surveyHours), surveyHours = totalElapsed / 3600000
getMinObservationsThreshold(totalElapsed) ==
    LET hits == {i \in 1..Len(minReportsThresholds) :
                    \/ minReportsThresholds[i].infinite
                    \/ totalElapsed < minReportsThresholds[i].ms}
    IN  minReportsThresholds[CHOOSE i \in hits : \A j \in hits : i <= j].minReports

\* The indexes (from 0) of the sectors and of the horizon bands.
Sectors == 0..(Len(azimuthSectors) - 1)
HorizonBands == {i - 1 : i \in {j \in 1..Len(elevationBands) : elevationBands[j].horizon}}

\* Math.max(...) of the values of a function over the sectors
MaxOver(f) == CHOOSE m \in {f[d] : d \in DOMAIN f} : \A d \in DOMAIN f : f[d] <= m

\* A variant of analyzeHorizonVisibility that asks only the lowest horizon
\* band of a direction for the minimum.
AnalyzeHorizonLowestBandOnly(grid, start, ldDuration, t) ==
    LET sessionElapsed == IF Truthy(start) THEN t - start ELSE 0
        totalElapsed == sessionElapsed + ldDuration
        minObsForValid == getMinObservationsThreshold(totalElapsed)
        lowestHorizonBandIdx == CHOOSE i \in HorizonBands : \A j \in HorizonBands : i <= j
        hasBothBands == [d \in Sectors |->
                            grid[<<d, lowestHorizonBandIdx>>].count >= minObsForValid]
        lowestBandCount == [d \in Sectors |->
                               IF grid[<<d, lowestHorizonBandIdx>>].count >= minObsForValid
                               THEN grid[<<d, lowestHorizonBandIdx>>].count
                               ELSE 0]
        maxLowestBandCount == MaxOver(lowestBandCount)
        classification ==
            [d \in Sectors |->
                IF ~hasBothBands[d] THEN "blocked"
                ELSE IF maxLowestBandCount > 0
                THEN IF lowestBandCount[d] * 100 >= clearThreshold * maxLowestBandCount
                     THEN "clear"
                     ELSE IF lowestBandCount[d] * 100 >= partialThreshold * maxLowestBandCount
                     THEN "partial"
                     ELSE "sparse"
                ELSE "blocked"]
    IN  [dirsClear |-> Cardinality({d \in Sectors : classification[d] = "clear"}),
         dirsPartial |-> Cardinality({d \in Sectors : classification[d] = "partial"}),
         dirsSparse |-> Cardinality({d \in Sectors : classification[d] = "sparse"}),
         dirsBlocked |-> Cardinality({d \in Sectors : classification[d] = "blocked"}),
         classification |-> classification,
         lowestBandCount |-> lowestBandCount,
         maxLowestBandCount |-> maxLowestBandCount]

\* analyzeHorizonVisibility() on the given grid, start time, loadedDuration
\* and instant t.
AnalyzeHorizonOf(grid, start, ldDuration, t) ==
    LET sessionElapsed == IF Truthy(start) THEN t - start ELSE 0
        totalElapsed == sessionElapsed + ldDuration
        minObsForValid == getMinObservationsThreshold(totalElapsed)
        lowestHorizonBandIdx == CHOOSE i \in HorizonBands : \A j \in HorizonBands : i <= j
        hasBothBands == [d \in Sectors |->
                            \A el \in HorizonBands : grid[<<d, el>>].count >= minObsForValid]
        lowestBandCount == [d \in Sectors |->
                               IF grid[<<d, lowestHorizonBandIdx>>].count >= minObsForValid
                               THEN grid[<<d, lowestHorizonBandIdx>>].count
                               ELSE 0]
        maxLowestBandCount == MaxOver(lowestBandCount)
        classification ==
            [d \in Sectors |->
                IF ~hasBothBands[d] THEN "blocked"
                ELSE IF maxLowestBandCount > 0
                THEN IF lowestBandCount[d] * 100 >= clearThreshold * maxLowestBandCount
                     THEN "clear"
                     ELSE IF lowestBandCount[d] * 100 >= partialThreshold * maxLowestBandCount
                     THEN "partial"
                     ELSE "sparse"
                ELSE "blocked"]
    IN  [dirsClear |-> Cardinality({d \in Sectors : classification[d] = "clear"}),
         dirsPartial |-> Cardinality({d \in Sectors : classification[d] = "partial"}),
         dirsSparse |-> Cardinality({d \in Sectors : classification[d] = "sparse"}),
         dirsBlocked |-> Cardinality({d \in Sectors : classification[d] = "blocked"}),
         classification |-> classification,
         lowestBandCount |-> lowestBandCount,
         maxLowestBandCount |-> maxLowestBandCount]

\* analyzeHorizonVisibility() on the current store.
analyzeHorizonVisibility == AnalyzeHorizonOf(coverageGrid, startTime, loadedDuration, now)

\* Math.round(part / whole * 100); the quotients of the 56 cells and of the
\* 16 horizon cells that end in .5 are exact in double arithmetic.
RoundedPercentage(part, whole) ==
    IF whole > 0 THEN (200 * part + whole) \div (2 * whole) ELSE 0

\* calculateGridCoverage() on the given grid, start time, loadedDuration and
\* instant t; surveyHours is kept in milliseconds.
CalculateGridCoverageOf(grid, start, ldDuration, t) ==
    LET sessionElapsed == IF Truthy(start) THEN t - start ELSE 0
        totalElapsed == sessionElapsed + ldDuration
        minObsForValid == getMinObservationsThreshold(totalElapsed)
        cells == Sectors \X (0..(Len(elevationBands) - 1))
        horizonCells == Sectors \X HorizonBands
        cellsWithObs == Cardinality({c \in cells : grid[c].count >= minObsForValid})
        horizonCellsWithObs ==
            Cardinality({c \in horizonCells : grid[c].count >= minObsForValid})
    IN  [totalCells |-> Cardinality(cells),
         cellsWithObs |-> cellsWithObs,
         percentage |-> RoundedPercentage(cellsWithObs, Cardinality(cells)),
         horizonCellsTotal |-> Cardinality(horizonCells),
         horizonCellsWithObs |-> horizonCellsWithObs,
         horizonPercentage |-> RoundedPercentage(horizonCellsWithObs,
                                                 Cardinality(horizonCells)),
         surveyHours |-> totalElapsed,
         minObsForValid |-> minObsForValid]

\* calculateGridCoverage() on the current store.
calculateGridCoverage ==
    CalculateGridCoverageOf(coverageGrid, startTime, loadedDuration, now)

\* The direction counts <<clear, partial, sparse, blocked>> for which the
\* double arithmetic of calculateHorizonScore gives a product just below
\* x.5, so that Math.round gives one less than the exact value rounded
\* (computed in double arithmetic for all counts with a sum of 1..8).
HorizonScoreRoundedDown ==
    { <<0, 0, 3, 1>>, <<0, 1, 2, 1>>, <<0, 3, 0, 1>>, <<1, 1, 2, 0>>,
      <<1, 3, 0, 0>>, <<2, 0, 1, 1>>,
      <<0, 0, 6, 2>>, <<0, 2, 4, 2>>, <<0, 3, 3, 2>>, <<0, 6, 0, 2>>,
      <<1, 1, 3, 3>>, <<1, 3, 1, 3>>, <<2, 2, 4, 0>>, <<2, 6, 0, 0>>,
      <<3, 1, 3, 1>>, <<4, 0, 2, 2>> }

\* calculateHorizonScore(horizonAnalysis):
\* Math.round((clear * 1.0 + partial * 0.7 + sparse * 0.3) / totalDirs * 100)
calculateHorizonScore(h) ==
    LET totalDirs == h.dirsClear + h.dirsPartial + h.dirsSparse + h.dirsBlocked
        tenths == 10 * h.dirsClear + 7 * h.dirsPartial + 3 * h.dirsSparse
        exact == (2 * tenths * 100 + 10 * totalDirs) \div (2 * 10 * totalDirs)
    IN  IF totalDirs = 0 THEN 0
        ELSE IF <<h.dirsClear, h.dirsPartial, h.dirsSparse, h.dirsBlocked>>
                    \in HorizonScoreRoundedDown
        THEN exact - 1
        ELSE exact

\* A variant of RateSite whose first rule asks for an uptime above 95.
RateSiteAbove95(uptime, h) ==
    IF /\ uptime.num > 95 * uptime.den /\ h.dirsClear >= 7
       /\ h.dirsBlocked = 0 /\ h.dirsSparse = 0
    THEN [short |-> "EXCELLENT", detail |-> "High uptime, clear horizon"]
    ELSE IF /\ uptime.num >= 90 * uptime.den /\ h.dirsClear >= 5
            /\ h.dirsBlocked = 0 /\ h.dirsSparse <= 1
    THEN [short |-> "GOOD", detail |-> "Reliable connectivity expected"]
    ELSE IF /\ uptime.num >= 80 * uptime.den /\ h.dirsBlocked <= 1
            /\ calculateHorizonScore(h) >= 50
    THEN [short |-> "ADEQUATE", detail |-> "Usable with occasional dropouts"]
    ELSE IF uptime.num >= 60 * uptime.den /\ h.dirsBlocked <= 2
    THEN [short |-> "MARGINAL", detail |-> "Frequent connectivity gaps likely"]
    ELSE [short |-> "POOR", detail |-> "Unreliable - consider different location"]

\* A variant of RateSite whose second rule leaves the uptimes from 95 on to
\* the first rule.
RateSiteGoodBelow95(uptime, h) ==
    IF /\ uptime.num >= 95 * uptime.den /\ h.dirsClear >= 7
       /\ h.dirsBlocked = 0 /\ h.dirsSparse = 0
    THEN [short |-> "EXCELLENT", detail |-> "High uptime, clear horizon"]
    ELSE IF /\ uptime.num >= 90 * uptime.den /\ uptime.num < 95 * uptime.den
            /\ h.dirsClear >= 5 /\ h.dirsBlocked = 0 /\ h.dirsSparse <= 1
    THEN [short |-> "GOOD", detail |-> "Reliable connectivity expected"]
    ELSE IF /\ uptime.num >= 80 * uptime.den /\ h.dirsBlocked <= 1
            /\ calculateHorizonScore(h) >= 50
    THEN [short |-> "ADEQUATE", detail |-> "Usable with occasional dropouts"]
    ELSE IF uptime.num >= 60 * uptime.den /\ h.dirsBlocked <= 2
    THEN [short |-> "MARGINAL", detail |-> "Frequent connectivity gaps likely"]
    ELSE [short |-> "POOR", detail |-> "Unreliable - consider different location"]

\* The ordered rules of getVerdict; uptime is the percentage num / den, and
\* short is the verdict's word without the mark in front of it.
RateSite(uptime, h) ==
    IF /\ uptime.num >= 95 * uptime.den /\ h.dirsClear >= 7
       /\ h.dirsBlocked = 0 /\ h.dirsSparse = 0
    THEN [short |-> "EXCELLENT", detail |-> "High uptime, clear horizon"]
    ELSE IF /\ uptime.num >= 90 * uptime.den /\ h.dirsClear >= 5
            /\ h.dirsBlocked = 0 /\ h.dirsSparse <= 1
    THEN [short |-> "GOOD", detail |-> "Reliable connectivity expected"]
    ELSE IF /\ uptime.num >= 80 * uptime.den /\ h.dirsBlocked <= 1
            /\ calculateHorizonScore(h) >= 50
    THEN [short |-> "ADEQUATE", detail |-> "Usable with occasional dropouts"]
    ELSE IF uptime.num >= 60 * uptime.den /\ h.dirsBlocked <= 2
    THEN [short |-> "MARGINAL", detail |-> "Frequent connectivity gaps likely"]
    ELSE [short |-> "POOR", detail |-> "Unreliable - consider different location"]

\* The result of getVerdict when there is not enough data.
collectingData == [short |-> "--", detail |-> "Collecting data..."]

\* A variant of GetVerdictOf that rates the site as soon as there are
\* service statistics.
GetVerdictWithoutMinimum(serviceStats, h) ==
    IF serviceStats.isNull THEN collectingData
    ELSE RateSite(serviceStats.percentage, h)

\* getVerdict({serviceStats, horizonAnalysis})
GetVerdictOf(serviceStats, h) ==
    IF serviceStats.isNull \/ serviceStats.totalMs < 60000 THEN collectingData
    ELSE RateSite(serviceStats.percentage, h)

\* getVerdict() on the current store.
getVerdict == GetVerdictOf(calculateServiceUptime, analyzeHorizonVisibility)

----------------------------------------------------------------------------
(* Coordinates and grid keys (processing/coordinates.js) *)

\* The ECEF positions (km) the modem reports in this model, and what
\* ecefToElevAz computes for them at the two observer sites, in tenths of a
\* degree (computed with the formulas of ecefToElevAz in double arithmetic
\* and rounded; the elevation of P3 at the equator site is exactly 90).
P1 == [x |-> 2459, y |-> 274, z |-> 6794]
P2 == [x |-> 4630, y |-> 939, z |-> 5408]
P3 == [x |-> 7159, y |-> 0, z |-> 0]
P4 == [x |-> 6188, y |-> -1332, z |-> 3499]
\* A satellite in the plane of the antimeridian.
P5 == [x |-> -3000, y |-> 0, z |-> 6500]

ElevAzTable ==
    { [pos |-> P1, obs |-> defaultLocation, elevation |-> 110, azimuth |-> 100],
      [pos |-> P2, obs |-> defaultLocation, elevation |-> 300, azimuth |-> 1000],
      [pos |-> P3, obs |-> defaultLocation, elevation |-> 0,   azimuth |-> 1760],
      [pos |-> P4, obs |-> defaultLocation, elevation |-> 50,  azimuth |-> 2000],
      [pos |-> P1, obs |-> equatorLocation, elevation |-> 0,   azimuth |-> 23],
      [pos |-> P2, obs |-> equatorLocation, elevation |-> 0,   azimuth |-> 99],
      [pos |-> P3, obs |-> equatorLocation, elevation |-> 900, azimuth |-> 0],
      [pos |-> P4, obs |-> equatorLocation, elevation |-> 0,   azimuth |-> 3392],
      [pos |-> P5, obs |-> defaultLocation, elevation |-> 0,   azimuth |-> 3585],
      [pos |-> P5, obs |-> equatorLocation, elevation |-> 0,   azimuth |-> 0],
      [pos |-> P1, obs |-> antimeridianLocation, elevation |-> 0, azimuth |-> 3575],
      \* atan2(east, north) is -1.1e-14 degrees here, and -1.1e-14 + 360
      \* is the double 360 exactly: 3600 stands for 360.0, not for a rounding
      [pos |-> P5, obs |-> antimeridianLocation, elevation |-> 157, azimuth |-> 3600] }

\* ecefToElevAz(x, y, z, observer); a NaN coordinate gives NaN angles.
ecefToElevAz(x, y, z, obs) ==
    IF x = NaN \/ y = NaN \/ z = NaN
    THEN [elevation |-> NaN, azimuth |-> NaN]
    ELSE LET row == CHOOSE r \in ElevAzTable :
                        r.pos = [x |-> x, y |-> y, z |-> z] /\ r.obs = obs
         IN  [elevation |-> row.elevation, azimuth |-> row.azimuth]

\* JS a % b for b > 0: the sign of the result is the sign of a.
JsMod(a, b) == IF a >= 0 THEN a % b ELSE -((-a) % b)

\* getAzimuthIndex(azimuth): floor(((azimuth + 22.5) % 360) / 45)
getAzimuthIndex(azimuth) == JsMod(azimuth + 225, 3600) \div 450

\* A variant of getElevationIndex without the case of exactly 90 degrees.
getElevationIndexHalfOpen(elevation) ==
    LET hits == {i \in 1..Len(elevationBands) :
                    elevation >= elevationBands[i].min /\ elevation < elevationBands[i].max}
    IN  IF elevation = NaN THEN -1
        ELSE IF hits # {} THEN (CHOOSE i \in hits : \A j \in hits : i <= j) - 1
        ELSE -1

\* getElevationIndex(elevation): the first band holding it, 90 in the last, else -1
getElevationIndex(elevation) ==
    LET hits == {i \in 1..Len(elevationBands) :
                    elevation >= elevationBands[i].min /\ elevation < elevationBands[i].max}
    IN  IF elevation = NaN THEN -1
        ELSE IF hits # {} THEN (CHOOSE i \in hits : \A j \in hits : i <= j) - 1
        ELSE IF elevation >= 900 THEN Len(elevationBands) - 1
        ELSE -1

\* getCellKey(azimuth, elevation): <<>> stands for null
getCellKey(azimuth, elevation) ==
    IF getElevationIndex(elevation) < 0 THEN <<>>
    ELSE <<getAzimuthIndex(azimuth), getElevationIndex(elevation)>>

\* isInFunctionalRange(elevation)
isInFunctionalRange(elevation) ==
    elevation # NaN /\ elevation >= minFunctionalElevation

----------------------------------------------------------------------------
(* JS Map of satellite tracks: a sequence of [svId, reports, beams] *)

MapHas(map, key) == \E i \in 1..Len(map) : map[i].svId = key

MapGet(map, key) == map[CHOOSE i \in 1..Len(map) : map[i].svId = key]

\* Map.prototype.set: a present key keeps its place.
MapSet(map, key, reports, beams) ==
    IF MapHas(map, key)
    THEN [i \in 1..Len(map) |->
            IF map[i].svId = key
            THEN [svId |-> key, reports |-> reports, beams |-> beams]
            ELSE map[i]]
    ELSE Append(map, [svId |-> key, reports |-> reports, beams |-> beams])

\* The track of key after `reports.push(report); beams.add(beamId)`, the
\* track being created empty when the key is new.
TrackPush(map, key, report, beamId) ==
    LET old == IF MapHas(map, key) THEN MapGet(map, key)
               ELSE [svId |-> key, reports |-> <<>>, beams |-> <<>>]
    IN  MapSet(map, key, Append(old.reports, report), SetAdd(old.beams, beamId))

----------------------------------------------------------------------------
(* Lines (services/modem.js) *)

\* What parseInt gives for the tokens of the model; any other token is NaN.
IntTokens == ("0" :> 0) @@ ("1" :> 1) @@ ("2" :> 2) @@ ("3" :> 3) @@ ("7" :> 7)
             @@ ("2459" :> 2459) @@ ("274" :> 274) @@ ("6794" :> 6794)
             @@ ("4630" :> 4630) @@ ("939" :> 939) @@ ("5408" :> 5408)
             @@ ("6188" :> 6188) @@ ("-1332" :> -1332) @@ ("3499" :> 3499)
             @@ ("7159" :> 7159) @@ ("-3000" :> -3000) @@ ("6500" :> 6500)

\* parseInt(token)
ParseInt(token) == IF token \in DOMAIN IntTokens THEN IntTokens[token] ELSE NaN

\* The token matches \d+
IsDigits(token) == token \in DOMAIN IntTokens /\ IntTokens[token] >= 0

\* values[i], undefined past the end
At(values, i) == IF i <= Len(values) THEN values[i] ELSE "undefined"

\* A line "+CIEV:<ind>,<values>" ; plain is a line that does not start with +CIEV:
CievLine(ind, values) == [ciev |-> TRUE, ind |-> ind, values |-> values]
plainLine == [ciev |-> FALSE, ind |-> "", values |-> <<>>]

PosTokens(p) == IF p = P1 THEN <<"2459", "274", "6794">>
                ELSE IF p = P2 THEN <<"4630", "939", "5408">>
                ELSE IF p = P3 THEN <<"7159", "0", "0">>
                ELSE IF p = P5 THEN <<"-3000", "0", "6500">>
                ELSE <<"6188", "-1332", "3499">>

\* "+CIEV:3,<svId>,<beamId>,<svBm>,<x>,<y>,<z>"
SvBeamLine(svId, beamId, svBm, p) == CievLine("3", <<svId, beamId, svBm>> \o PosTokens(p))

----------------------------------------------------------------------------
(* History variables *)

\* The store as created by createInitialState().
FreshStore ==
    /\ isLogging = FALSE
    /\ startTime = Null
    /\ loadedDuration = 0
    /\ loadedUptime = 0
    /\ loadedOutageCount = 0
    /\ observer = defaultLocation
    /\ rssiReports = <<>>
    /\ svBeamReports = <<>>
    /\ satellites = <<>>
    /\ coverageGrid = createEmptyCoverageGrid
    /\ rawLines = 0
    /\ serviceEvents = <<>>
    /\ serviceState = [available |-> Null, lastChange |-> Null]

noScenario == [phase |-> "none", file |-> <<>>]

noProbe == [fn |-> "none", args |-> <<>>, result |-> <<>>]

\* The page after its scripts have run, before any call.
InitPage ==
    /\ now = 1
    /\ FreshStore
    /\ savedFile = <<>>
    /\ imports = 0
    /\ delivered = 0
    /\ savedAt = <<>>
    /\ toast = [type |-> "none", message |-> ""]
    /\ lastOp = [op |-> "init", arg |-> <<>>]
    /\ scenario = noScenario
    /\ durationInterval = Null
    /\ predictionInterval = Null
    /\ intervals = {}
    /\ cierPending = <<>>
    /\ antennaFaultEvents = 0
    /\ previousFault = Null
    /\ isConnected = FALSE
    /\ disconnecting = "idle"

Init ==
    /\ InitPage
    /\ probe = noProbe

----------------------------------------------------------------------------
(* Timers (visualization/ui.js, tle/predictor.js) *)

\* setInterval gives a handle that no scheduled timer has: the least one.
NewHandle(table) ==
    CHOOSE id \in 1..(Cardinality(table) + 1) :
        /\ \A t \in table : t.id # id
        /\ \A j \in 1..(id - 1) : \E t \in table : t.id = j

\* clearInterval(handle)
ClearInterval(table, handle) == {t \in table : t.id # handle}

\* stopDurationTimer() / stopPredictionUpdates():
\* `if (handle) { clearInterval(handle); handle = null; }`
StopTimer(handle, table) ==
    IF Truthy(handle)
    THEN [handle |-> Null, table |-> ClearInterval(table, handle)]
    ELSE [handle |-> handle, table |-> table]

\* A variant of StartTimer that schedules the timer without stopping the
\* one before.
StartTimerWithoutStop(handle, table, callback) ==
    [handle |-> NewHandle(table),
     table |-> table \cup {[id |-> NewHandle(table), callback |-> callback]}]

\* startDurationTimer() / startPredictionUpdates(): stop, then setInterval
StartTimer(handle, table, callback) ==
    LET stopped == StopTimer(handle, table)
    IN  [handle |-> NewHandle(stopped.table),
         table |-> stopped.table
                     \cup {[id |-> NewHandle(stopped.table), callback |-> callback]}]

\* startPredictionUpdates(), on the click of loadTLEBtn; lastOp keeps the
\* handle from before the call.
startPredictionUpdates ==
    /\ predictionInterval' = StartTimer(predictionInterval, intervals, "updatePredictions").handle
    /\ intervals' = StartTimer(predictionInterval, intervals, "updatePredictions").table
    /\ lastOp' = [op |-> "startPredictionUpdates", arg |-> <<predictionInterval>>]
    /\ UNCHANGED << store, now, savedFile, imports, delivered, toast, savedAt,
                    scenario, probe, durationInterval, cierPending,
                    antennaFaultEvents, previousFault, serialVars >>

\* stopPredictionUpdates(), on the click of clearTLEBtn
stopPredictionUpdates ==
    /\ predictionInterval' = StopTimer(predictionInterval, intervals).handle
    /\ intervals' = StopTimer(predictionInterval, intervals).table
    /\ lastOp' = [op |-> "stopPredictionUpdates", arg |-> <<>>]
    /\ UNCHANGED << store, now, savedFile, imports, delivered, toast, savedAt,
                    scenario, probe, durationInterval, cierPending,
                    antennaFaultEvents, previousFault, serialVars >>

----------------------------------------------------------------------------
(* Time and logging (services/modem.js) *)

\* Date.now() advances by step.
Tick(step, limit) ==
    /\ now < limit
    /\ now' = now + step
    /\ lastOp' = [op |-> "tick", arg |-> <<>>]
    /\ UNCHANGED probe
    /\ UNCHANGED pageVars
    /\ UNCHANGED << isLogging, startTime, loadedDuration, loadedUptime,
                    loadedOutageCount, observer, rssiReports, svBeamReports,
                    satellites, coverageGrid, rawLines, serviceEvents,
                    serviceState, savedFile, imports, delivered, savedAt, toast, scenario >>

\* startCIER(), once its command and delay have completed.
startCIER ==
    /\ ~isLogging
    /\ isLogging' = TRUE
    /\ startTime' = now
    /\ lastOp' = [op |-> "startCIER", arg |-> <<>>]
    /\ UNCHANGED probe
    /\ durationInterval' = StartTimer(durationInterval, intervals, "updateDuration").handle
    /\ intervals' = StartTimer(durationInterval, intervals, "updateDuration").table
    /\ UNCHANGED << predictionInterval, cierPending, antennaFaultEvents, previousFault,
                    serialVars >>
    /\ scenario' = IF scenario.phase = "loaded"
                   THEN [scenario EXCEPT !.phase = "started"]
                   ELSE noScenario
    /\ UNCHANGED << now, loadedDuration, loadedUptime, loadedOutageCount,
                    observer, rssiReports, svBeamReports, satellites,
                    coverageGrid, rawLines, serviceEvents, serviceState,
                    savedFile, imports, delivered, savedAt, toast >>

\* startCIER() up to its delay: the command is sent, the rest is due 300 ms
\* later.
startCIERSend ==
    /\ ~isLogging
    /\ Len(cierPending) < MaxPending
    /\ cierPending' = Append(cierPending, now + 300)
    /\ lastOp' = [op |-> "startCIERSend", arg |-> <<>>]
    /\ UNCHANGED << store, now, savedFile, imports, delivered, toast, savedAt,
                    scenario, probe, timerVars, antennaFaultEvents, previousFault,
                    serialVars >>

\* startCIER() after its delay: the store is set and LOGGING_STARTED emitted,
\* on which startDurationTimer runs; lastOp keeps the handle from before
\* the call.
startCIERResume ==
    /\ cierPending # <<>>
    /\ now >= Head(cierPending)
    /\ cierPending' = Tail(cierPending)
    /\ isLogging' = TRUE
    /\ startTime' = now
    /\ durationInterval' = StartTimer(durationInterval, intervals, "updateDuration").handle
    /\ intervals' = StartTimer(durationInterval, intervals, "updateDuration").table
    /\ lastOp' = [op |-> "startCIER", arg |-> <<durationInterval>>]
    /\ scenario' = noScenario
    /\ UNCHANGED << now, loadedDuration, loadedUptime, loadedOutageCount,
                    observer, rssiReports, svBeamReports, satellites,
                    coverageGrid, rawLines, serviceEvents, serviceState,
                    savedFile, imports, delivered, savedAt, toast, probe,
                    predictionInterval, antennaFaultEvents, previousFault,
                    serialVars >>

\* stopCIER()
stopCIER ==
    /\ isLogging
    /\ isLogging' = FALSE
    /\ lastOp' = [op |-> "stopCIER", arg |-> <<>>]
    /\ UNCHANGED probe
    /\ durationInterval' = StopTimer(durationInterval, intervals).handle
    /\ intervals' = StopTimer(durationInterval, intervals).table
    /\ UNCHANGED << predictionInterval, cierPending, antennaFaultEvents, previousFault,
                    serialVars >>
    /\ scenario' = noScenario
    /\ UNCHANGED << now, startTime, loadedDuration, loadedUptime,
                    loadedOutageCount, observer, rssiReports, svBeamReports,
                    satellites, coverageGrid, rawLines, serviceEvents,
                    serviceState, savedFile, imports, delivered, savedAt, toast >>

----------------------------------------------------------------------------
(* The serial connection (services/serial.js) *)

\* connect(), once the port is open (ok) or the request has failed.
connect(ok) ==
    /\ ~isConnected
    /\ isConnected' = (IF ok THEN TRUE ELSE isConnected)
    /\ toast' = IF ok THEN [type |-> "success", message |-> "Connected"]
                ELSE [type |-> "error", message |-> "Connection failed"]
    /\ lastOp' = [op |-> "connect", arg |-> <<ok>>]
    /\ scenario' = noScenario
    /\ UNCHANGED << store, now, savedFile, imports, delivered, savedAt, probe,
                    timerVars, cierPending, antennaFaultEvents, previousFault,
                    disconnecting >>

\* disconnect() up to its first await: while logging it sends AT+CIER=0
\* and waits for the write; else it sets isLogging to false and waits for
\* the reader and the port to close.
disconnect ==
    /\ isConnected
    /\ disconnecting = "idle"
    /\ disconnecting' = (IF isLogging THEN "stopping" ELSE "closing")
    /\ lastOp' = [op |-> "disconnect", arg |-> <<>>]
    /\ scenario' = noScenario
    /\ UNCHANGED << store, now, savedFile, imports, delivered, savedAt, probe,
                    toast, timerVars, cierPending, antennaFaultEvents,
                    previousFault, isConnected >>

\* disconnect() after the write: store.set('isLogging', false), and the
\* wait for the reader and the port to close.  No event is emitted here.
disconnectStopped ==
    /\ disconnecting = "stopping"
    /\ disconnecting' = "closing"
    /\ isLogging' = FALSE
    /\ lastOp' = [op |-> "disconnectStopped", arg |-> <<>>]
    /\ scenario' = noScenario
    /\ UNCHANGED << now, startTime, loadedDuration, loadedUptime,
                    loadedOutageCount, observer, rssiReports, svBeamReports,
                    satellites, coverageGrid, rawLines, serviceEvents,
                    serviceState, savedFile, imports, delivered, savedAt, probe,
                    toast, timerVars, cierPending, antennaFaultEvents,
                    previousFault, isConnected >>

\* disconnect() after the port has closed: isConnected is set to false and
\* SERIAL_DISCONNECTED emitted.
disconnectClosed ==
    /\ disconnecting = "closing"
    /\ disconnecting' = "idle"
    /\ isConnected' = FALSE
    /\ lastOp' = [op |-> "disconnectClosed", arg |-> <<>>]
    /\ scenario' = noScenario
    /\ UNCHANGED << store, now, savedFile, imports, delivered, savedAt, probe,
                    toast, timerVars, cierPending, antennaFaultEvents,
                    previousFault >>

\* A variant of updateLocation that empties the coverage grid.
updateLocationResetting(loc) ==
    /\ observer' = loc
    /\ coverageGrid' = createEmptyCoverageGrid
    /\ toast' = [type |-> "success", message |-> "Location updated"]
    /\ lastOp' = [op |-> "updateLocation", arg |-> loc]
    /\ UNCHANGED probe
    /\ UNCHANGED pageVars
    /\ scenario' = noScenario
    /\ UNCHANGED << now, isLogging, startTime, loadedDuration, loadedUptime,
                    loadedOutageCount, rssiReports, svBeamReports, satellites,
                    rawLines, serviceEvents, serviceState,
                    savedFile, imports, delivered, savedAt >>

\* updateLocation(lat, lon) with valid coordinates (services/geolocation.js)
updateLocation(loc) ==
    /\ observer' = loc
    /\ toast' = [type |-> "success", message |-> "Location updated"]
    /\ lastOp' = [op |-> "updateLocation", arg |-> loc]
    /\ UNCHANGED probe
    /\ UNCHANGED pageVars
    /\ scenario' = noScenario
    /\ UNCHANGED << now, isLogging, startTime, loadedDuration, loadedUptime,
                    loadedOutageCount, rssiReports, svBeamReports, satellites,
                    coverageGrid, rawLines, serviceEvents, serviceState,
                    savedFile, imports, delivered, savedAt >>

\* The page is opened again: a new store; the clock and the files stay.
Reload ==
    /\ ~FreshStore
    /\ isLogging' = FALSE
    /\ startTime' = Null
    /\ loadedDuration' = 0
    /\ loadedUptime' = 0
    /\ loadedOutageCount' = 0
    /\ observer' = defaultLocation
    /\ rssiReports' = <<>>
    /\ svBeamReports' = <<>>
    /\ satellites' = <<>>
    /\ coverageGrid' = createEmptyCoverageGrid
    /\ rawLines' = 0
    /\ serviceEvents' = <<>>
    /\ serviceState' = [available |-> Null, lastChange |-> Null]
    /\ toast' = [type |-> "none", message |-> ""]
    /\ lastOp' = [op |-> "reload", arg |-> <<>>]
    /\ UNCHANGED probe
    /\ durationInterval' = Null
    /\ predictionInterval' = Null
    /\ intervals' = {}
    /\ cierPending' = <<>>
    /\ antennaFaultEvents' = 0
    /\ previousFault' = Null
    /\ isConnected' = FALSE
    /\ disconnecting' = "idle"
    /\ scenario' = noScenario
    /\ UNCHANGED << now, savedFile, imports, delivered, savedAt >>

----------------------------------------------------------------------------
(* Live lines (services/modem.js) *)

\* A variant of IsSvPosition that takes every flag for a satellite position.
IsSvPositionAnyFlag(svBm) == TRUE

\* `if (svBm !== 1) return;` is not taken
IsSvPosition(svBm) == svBm = 1

\* A variant of GridInsert that adds the satellite and leaves the count.
GridInsertSetOnly(grid, key, svId) ==
    [grid EXCEPT ![key] = [count |-> grid[key].count,
                           satellites |-> SetAdd(grid[key].satellites, svId)]]

\* The coverage grid after one observation in the cell of key.
GridInsert(grid, key, svId) ==
    [grid EXCEPT ![key] = [count |-> grid[key].count + 1,
                           satellites |-> SetAdd(grid[key].satellites, svId)]]

\* parseSvBeam(values, timestamp): the new <<svBeamReports, coverageGrid, satellites>>
parseSvBeam(values, timestamp) ==
    LET svId == ParseInt(values[1])
        beamId == ParseInt(values[2])
        svBm == ParseInt(values[3])
        x == ParseInt(values[4])
        y == ParseInt(values[5])
        z == ParseInt(values[6])
        ea == ecefToElevAz(x, y, z, observer)
        report == [timestamp |-> timestamp, svId |-> svId, beamId |-> beamId,
                   x |-> x, y |-> y, z |-> z,
                   elevation |-> ea.elevation, azimuth |-> ea.azimuth]
        cellKey == getCellKey(ea.azimuth, ea.elevation)
    IN  IF Len(values) < 6 THEN <<svBeamReports, coverageGrid, satellites>>
        ELSE IF ~IsSvPosition(svBm) THEN <<svBeamReports, coverageGrid, satellites>>
        ELSE << Append(svBeamReports, report),
                IF isInFunctionalRange(ea.elevation) /\ cellKey # <<>>
                THEN GridInsert(coverageGrid, cellKey, svId)
                ELSE coverageGrid,
                TrackPush(satellites, svId,
                          [timestamp |-> timestamp, elevation |-> ea.elevation,
                           azimuth |-> ea.azimuth, beamId |-> beamId],
                          beamId) >>

\* The tokens that hold "+CIEV:" and digits after it, with those digits.
EmbeddedIndicator == ("+CIEV:0" :> "0") @@ ("+CIEV:1" :> "1")

\* line.match(/\+CIEV:(\d+),(.+)/) after startsWith('+CIEV:'): the leftmost
\* match, at the start of the line or, the pattern having no anchor, at a
\* later "+CIEV:<digits>," of it.
MatchCIEV(line) ==
    LET later == {i \in 1..(Len(line.values) - 1) :
                     line.values[i] \in DOMAIN EmbeddedIndicator}
        first == CHOOSE i \in later : \A j \in later : i <= j
    IN  IF ~line.ciev
        THEN [found |-> FALSE, ind |-> "", values |-> <<>>]
        ELSE IF IsDigits(line.ind) /\ line.values # <<>>
        THEN [found |-> TRUE, ind |-> line.ind, values |-> line.values]
        ELSE IF later # {}
        THEN [found |-> TRUE, ind |-> EmbeddedIndicator[line.values[first]],
              values |-> SubSeq(line.values, first + 1, Len(line.values))]
        ELSE [found |-> FALSE, ind |-> "", values |-> <<>>]

\* The line is parsed: parseCIEV does not return at `if (!match)`.
MatchesCIEV(line) == MatchCIEV(line).found

\* The indicator parseCIEV dispatches on; -1 when the line is not parsed.
Indicator(line) == IF MatchesCIEV(line) THEN ParseInt(MatchCIEV(line).ind) ELSE -1

\* parseAntennaFault(values, timestamp): whether DATA_ANTENNA_FAULT and the
\* toast are emitted
parseAntennaFault(values) == ParseInt(values[1]) = 1

\* parseRSSI(values, timestamp): the new rssiReports
parseRSSI(values, timestamp) ==
    Append(rssiReports, [timestamp |-> timestamp, rssi |-> ParseInt(values[1])])

\* processLine(line), with parseCIEV and the four indicator parsers.
processLine(line) ==
    /\ delivered' = delivered + 1
    /\ rawLines' = rawLines + 1
    /\ lastOp' = [op |-> "processLine", arg |-> line]
    /\ UNCHANGED probe
    /\ antennaFaultEvents' =
         IF Indicator(line) = 2 /\ parseAntennaFault(MatchCIEV(line).values)
         THEN antennaFaultEvents + 1
         ELSE antennaFaultEvents
    /\ previousFault' =
         IF Indicator(line) = 2
         THEN (IF ParseInt(MatchCIEV(line).values[1]) = 1 THEN 1 ELSE 0)
         ELSE previousFault
    /\ UNCHANGED << timerVars, cierPending, serialVars >>
    /\ rssiReports' = IF Indicator(line) = 0 THEN parseRSSI(MatchCIEV(line).values, now)
                      ELSE rssiReports
    /\ serviceEvents' =
         IF Indicator(line) = 1
         THEN Append(serviceEvents, [timestamp |-> now,
                                     available |-> (ParseInt(MatchCIEV(line).values[1]) = 1)])
         ELSE serviceEvents
    /\ serviceState' =
         IF Indicator(line) = 1
         THEN [available |-> IF ParseInt(MatchCIEV(line).values[1]) = 1 THEN 1 ELSE 0,
               lastChange |-> now]
         ELSE serviceState
    /\ toast' = IF Indicator(line) = 2 /\ parseAntennaFault(MatchCIEV(line).values)
                THEN [type |-> "error", message |-> "Antenna fault detected!"]
                ELSE toast
    /\ svBeamReports' = IF Indicator(line) = 3 THEN parseSvBeam(MatchCIEV(line).values, now)[1]
                        ELSE svBeamReports
    /\ coverageGrid' = IF Indicator(line) = 3 THEN parseSvBeam(MatchCIEV(line).values, now)[2]
                       ELSE coverageGrid
    /\ satellites' = IF Indicator(line) = 3 THEN parseSvBeam(MatchCIEV(line).values, now)[3]
                     ELSE satellites
    /\ scenario' = IF /\ scenario.phase = "started"
                      /\ Indicator(line) = 1
                      /\ ParseInt(MatchCIEV(line).values[1]) = 1
                      /\ now = startTime
                   THEN [scenario EXCEPT !.phase = "online"]
                   ELSE noScenario
    /\ UNCHANGED << now, isLogging, startTime, loadedDuration, loadedUptime,
                    loadedOutageCount, observer, savedFile, imports, savedAt >>

----------------------------------------------------------------------------
(* Session documents (data/session.js) *)

\* A session document as JSON.parse returns it.  has lists the fields the
\* document carries; parses is FALSE for a file that is not JSON.  The
\* coverageGrid field is the object of serialized cells (a cell may be
\* null); the satellites field is iterable (an array of items) or not.
AllFields == {"version", "timestamp", "duration", "uptime", "outageCount",
              "location", "rssiReports", "svBeamReports", "serviceEvents",
              "coverageGrid", "satellites"}

\* JSON.parse(JSON.stringify(r)) of an object of numbers
JsonRecord(r) == [f \in DOMAIN r |-> JsonNumber(r[f])]

\* JSON.parse(JSON.stringify(a)) of an array of objects of numbers
JsonRecords(a) == [i \in 1..Len(a) |-> JsonRecord(a[i])]

\* JSON.parse(JSON.stringify(a)) of an array of numbers
JsonNumbers(a) == [i \in 1..Len(a) |-> JsonNumber(a[i])]

\* A variant of serializeCoverageGrid that writes the number of satellites
\* of a cell as its count.
serializeCoverageGridLengthAsCount(grid) ==
    [k \in DOMAIN grid |->
        [isNull |-> FALSE, count |-> Len(grid[k].satellites),
         satellites |-> ArrayFrom(grid[k].satellites)]]

\* serializeCoverageGrid(grid)
serializeCoverageGrid(grid) ==
    [k \in DOMAIN grid |->
        [isNull |-> FALSE, count |-> grid[k].count,
         satellites |-> ArrayFrom(grid[k].satellites)]]

\* Keys for which `grid[key]` is truthy in a grid that has no such cell:
\* the properties every object inherits from Object.prototype, written as
\* one-element tuples (those the documents below use).
ObjectPrototypeKeys == { <<"constructor">>, <<"toString">> }

\* `if (grid[key])` on the new grid of deserializeCoverageGrid
GridHasKey(key) == key \in GridKeys \/ key \in ObjectPrototypeKeys

\* deserializeCoverageGrid(serialized) throws: `cell.count` of a null cell
deserializeCoverageGridThrows(serialized) ==
    \E k \in DOMAIN serialized : GridHasKey(k) /\ serialized[k].isNull

\* deserializeCoverageGrid(serialized), when it does not throw
deserializeCoverageGrid(serialized) ==
    [k \in GridKeys \cup {j \in DOMAIN serialized : GridHasKey(j)} |->
        IF k \in DOMAIN serialized
        THEN [count |-> OrZero(serialized[k].count),
              satellites |-> NewSet(serialized[k].satellites)]
        ELSE createEmptyCoverageGrid[k]]

\* serializeSatellites(satellites)
serializeSatellites(map) ==
    [i \in 1..Len(map) |->
        [isNull |-> FALSE, isArray |-> FALSE, svId |-> map[i].svId,
         reports |-> map[i].reports, beams |-> ArrayFrom(map[i].beams)]]

\* deserializeSatellites(serialized) throws: not iterable, or `sat.svId` of null
deserializeSatellitesThrows(serialized) ==
    \/ ~serialized.iterable
    \/ \E i \in 1..Len(serialized.items) : serialized.items[i].isNull

\* deserializeSatellites(serialized), when it does not throw: both item
\* formats set the key to {reports, beams: new Set(beams)}
RECURSIVE DeserializeItems(_)
DeserializeItems(items) ==
    IF items = <<>> THEN <<>>
    ELSE LET sat == items[Len(items)]
         IN  MapSet(DeserializeItems(SubSeq(items, 1, Len(items) - 1)),
                    sat.svId, sat.reports, NewSet(sat.beams))

deserializeSatellites(serialized) == DeserializeItems(serialized.items)

\* JSON.parse(JSON.stringify(session)) of the serialized tracks
JsonSatellites(items) ==
    [i \in 1..Len(items) |->
        [isNull |-> FALSE, isArray |-> FALSE, svId |-> JsonNumber(items[i].svId),
         reports |-> JsonRecords(items[i].reports),
         beams |-> JsonNumbers(items[i].beams)]]

\* JSON.parse(JSON.stringify(session)) of the serialized grid
JsonGrid(cells) ==
    [k \in DOMAIN cells |->
        [isNull |-> FALSE, count |-> JsonNumber(cells[k].count),
         satellites |-> JsonNumbers(cells[k].satellites)]]

\* The session object saveSession() builds, as the written file parses back.
SessionDocument ==
    LET sessionElapsed == IF Truthy(startTime) THEN now - startTime ELSE 0
        serviceStats == calculateServiceUptime
    IN  [ parses |-> TRUE,
          has |-> AllFields,
          version |-> [type |-> "number", val |-> sessionVersion],
          timestamp |-> now,
          duration |-> sessionElapsed + loadedDuration,
          uptime |-> IF serviceStats.isNull THEN 0 ELSE OrZero(serviceStats.uptimeMs),
          outageCount |-> IF serviceStats.isNull THEN 0
                          ELSE OrZero(serviceStats.outageCount),
          location |-> observer,
          rssiReports |-> JsonRecords(rssiReports),
          svBeamReports |-> JsonRecords(svBeamReports),
          serviceEvents |-> serviceEvents,
          coverageGrid |-> JsonGrid(serializeCoverageGrid(coverageGrid)),
          satellites |-> [iterable |-> TRUE,
                          items |-> JsonSatellites(serializeSatellites(satellites))] ]

\* saveSession()
saveSession ==
    /\ savedFile' = <<SessionDocument>>
    /\ savedAt' = [serviceStats |-> calculateServiceUptime,
                   observer |-> observer,
                   rssiReports |-> rssiReports,
                   svBeamReports |-> svBeamReports,
                   coverageGrid |-> coverageGrid,
                   satellites |-> satellites]
    /\ toast' = [type |-> "success", message |-> "Session saved"]
    /\ lastOp' = [op |-> "saveSession", arg |-> <<>>]
    /\ UNCHANGED probe
    /\ UNCHANGED pageVars
    /\ scenario' = noScenario
    /\ UNCHANGED << now, isLogging, startTime, loadedDuration, loadedUptime,
                    loadedOutageCount, observer, rssiReports, svBeamReports,
                    satellites, coverageGrid, rawLines, serviceEvents,
                    serviceState, imports, delivered >>

\* A variant of VersionOk that compares with != and so accepts "3".
VersionOkLoose(session) ==
    /\ "version" \in session.has
    /\ \/ session.version.type = "number" /\ session.version.val = sessionVersion
       \/ session.version.type = "string" /\ session.version.val = "3"

\* `session.version !== CONFIG.sessionVersion` is false
VersionOk(session) ==
    /\ "version" \in session.has
    /\ session.version.type = "number"
    /\ session.version.val = sessionVersion

\* session.<field> of a number field, undefined when the document lacks it
NumberField(session, name) ==
    IF name \in session.has THEN session[name] ELSE Null

\* A variant of LoadedServiceEvents that restores the document's events.
LoadedServiceEventsFromFile(session) ==
    IF "serviceEvents" \in session.has THEN session.serviceEvents ELSE <<>>

\* The service events after a load: `store.set('serviceEvents', [])`
LoadedServiceEvents(session) == <<>>

\* loadSession(file).  The store.set calls run in order; an exception leaves
\* the later ones undone and is reported by the catch block.
loadSession(file) ==
    LET rejected == ~file.parses \/ ~VersionOk(file)
        gridGiven == "coverageGrid" \in file.has
        gridThrows == gridGiven /\ deserializeCoverageGridThrows(file.coverageGrid)
        satsGiven == "satellites" \in file.has
        satsThrows == ~gridThrows /\ satsGiven
                      /\ deserializeSatellitesThrows(file.satellites)
        failed == rejected \/ gridThrows \/ satsThrows
        wasFresh == FreshStore
    IN  /\ lastOp' = [op |-> "loadSession", arg |-> file]
        /\ UNCHANGED probe
        /\ UNCHANGED pageVars
        /\ toast' = IF failed THEN [type |-> "error", message |-> "Failed to load"]
                    ELSE [type |-> "success", message |-> "Session loaded"]
        /\ scenario' = IF wasFresh /\ ~failed
                       THEN [phase |-> "loaded", file |-> <<file>>]
                       ELSE noScenario
        /\ IF rejected
           THEN UNCHANGED << loadedDuration, loadedUptime, loadedOutageCount,
                             observer, rssiReports, svBeamReports, serviceEvents,
                             coverageGrid, satellites >>
           ELSE /\ loadedDuration' = OrZero(NumberField(file, "duration"))
                /\ loadedUptime' = OrZero(NumberField(file, "uptime"))
                /\ loadedOutageCount' = OrZero(NumberField(file, "outageCount"))
                /\ observer' = IF "location" \in file.has THEN file.location
                               ELSE defaultLocation
                /\ rssiReports' = IF "rssiReports" \in file.has THEN file.rssiReports
                                  ELSE <<>>
                /\ svBeamReports' = IF "svBeamReports" \in file.has
                                    THEN file.svBeamReports ELSE <<>>
                /\ serviceEvents' = LoadedServiceEvents(file)
                /\ coverageGrid' = IF gridGiven /\ ~gridThrows
                                   THEN deserializeCoverageGrid(file.coverageGrid)
                                   ELSE coverageGrid
                /\ satellites' = IF satsGiven /\ ~gridThrows /\ ~satsThrows
                                 THEN deserializeSatellites(file.satellites)
                                 ELSE satellites
        /\ UNCHANGED << now, isLogging, startTime, rawLines, serviceState,
                        savedFile, imports, delivered, savedAt >>

\* Every field that clearSession resets holds data of a survey.
HoldsSurvey ==
    /\ rssiReports # <<>>
    /\ svBeamReports # <<>>
    /\ satellites # <<>>
    /\ coverageGrid # createEmptyCoverageGrid
    /\ serviceEvents # <<>>
    /\ serviceState.available # Null
    /\ startTime # Null
    /\ loadedDuration # 0
    /\ loadedUptime # 0
    /\ loadedOutageCount # 0

\* A variant of clearSession that keeps the totals carried over from a
\* loaded document.
clearSessionKeepingLoaded ==
    /\ rssiReports' = <<>>
    /\ svBeamReports' = <<>>
    /\ satellites' = <<>>
    /\ coverageGrid' = createEmptyCoverageGrid
    /\ rawLines' = 0
    /\ serviceEvents' = <<>>
    /\ serviceState' = [available |-> Null, lastChange |-> Null]
    /\ startTime' = Null
    /\ toast' = [type |-> "info", message |-> "Session cleared"]
    /\ lastOp' = [op |-> "clearSession", arg |-> <<HoldsSurvey>>]
    /\ UNCHANGED probe
    /\ UNCHANGED pageVars
    /\ scenario' = noScenario
    /\ UNCHANGED << now, isLogging, observer, savedFile, imports, delivered, savedAt,
                    loadedDuration, loadedUptime, loadedOutageCount >>

\* clearSession(); lastOp keeps whether every field held data before.
clearSession ==
    /\ rssiReports' = <<>>
    /\ svBeamReports' = <<>>
    /\ satellites' = <<>>
    /\ coverageGrid' = createEmptyCoverageGrid
    /\ rawLines' = 0
    /\ serviceEvents' = <<>>
    /\ serviceState' = [available |-> Null, lastChange |-> Null]
    /\ startTime' = Null
    /\ loadedDuration' = 0
    /\ loadedUptime' = 0
    /\ loadedOutageCount' = 0
    /\ toast' = [type |-> "info", message |-> "Session cleared"]
    /\ lastOp' = [op |-> "clearSession", arg |-> <<HoldsSurvey>>]
    /\ UNCHANGED probe
    /\ UNCHANGED pageVars
    /\ scenario' = noScenario
    /\ UNCHANGED << now, isLogging, observer, savedFile, imports, delivered, savedAt >>

\* initCoverageGrid() (processing/coverage.js)
initCoverageGrid ==
    /\ coverageGrid' = createEmptyCoverageGrid
    /\ lastOp' = [op |-> "initCoverageGrid", arg |-> <<>>]
    /\ UNCHANGED probe
    /\ UNCHANGED pageVars
    /\ scenario' = noScenario
    /\ UNCHANGED << now, isLogging, startTime, loadedDuration, loadedUptime,
                    loadedOutageCount, observer, rssiReports, svBeamReports,
                    satellites, rawLines, serviceEvents, serviceState,
                    savedFile, imports, delivered, savedAt, toast >>

\* A variant of EventsAfterSort in which sort() works on the array of the
\* store.
EventsSortedInPlace(evs) == SortEvents(evs)

\* The serviceEvents array of the store after calculateServiceUptime:
\* `[...serviceEvents].sort(...)` sorts a copy.
EventsAfterSort(evs) == evs

\* calculateAssessment(): the four computations on the current store;
\* probe keeps what they return.
calculateAssessment ==
    /\ probe' = [fn |-> "calculateAssessment", args |-> <<>>,
                 result |-> << [serviceStats |-> calculateServiceUptime,
                                gridCoverage |-> calculateGridCoverage,
                                horizonAnalysis |-> analyzeHorizonVisibility,
                                horizonScore |-> calculateHorizonScore(analyzeHorizonVisibility),
                                verdict |-> getVerdict] >>]
    /\ serviceEvents' = EventsAfterSort(serviceEvents)
    /\ lastOp' = [op |-> "calculateAssessment", arg |-> <<>>]
    /\ scenario' = noScenario
    /\ UNCHANGED pageVars
    /\ UNCHANGED << now, isLogging, startTime, loadedDuration, loadedUptime,
                    loadedOutageCount, observer, rssiReports, svBeamReports,
                    satellites, coverageGrid, rawLines, serviceState,
                    savedFile, imports, delivered, savedAt, toast >>

----------------------------------------------------------------------------
(* The text report (data/export.js) *)

\* calculateSummary(): the fields the report's horizon lines use.
calculateSummary ==
    [dirsClear |-> analyzeHorizonVisibility.dirsClear,
     dirsPartial |-> analyzeHorizonVisibility.dirsPartial,
     dirsSparse |-> analyzeHorizonVisibility.dirsSparse,
     dirsBlocked |-> analyzeHorizonVisibility.dirsBlocked,
     gridCoverage |-> calculateGridCoverage.percentage,
     minObsThreshold |-> calculateGridCoverage.minObsForValid]

\* `cell?.count || 0`
CountOrZero(grid, key) == IF key \in DOMAIN grid THEN OrZero(grid[key].count) ELSE 0

\* A variant of the report's classification that takes the reference count
\* over the directions with both horizon bands only.
ExportTiersAmongValid(grid, minObsThreshold) ==
    LET lowestHorizonBandIdx == CHOOSE i \in HorizonBands : \A j \in HorizonBands : i <= j
        lowestCount == [d \in Sectors |-> CountOrZero(grid, <<d, lowestHorizonBandIdx>>)]
        secondCount == [d \in Sectors |-> CountOrZero(grid, <<d, lowestHorizonBandIdx + 1>>)]
        hasBothBands == [d \in Sectors |-> /\ lowestCount[d] >= minObsThreshold
                                           /\ secondCount[d] >= minObsThreshold]
        maxLowestBandCount ==
            MaxOver([d \in Sectors |-> IF hasBothBands[d] THEN lowestCount[d] ELSE 0])
    IN  [d \in Sectors |->
            IF ~hasBothBands[d] THEN "BLOCKED"
            ELSE IF maxLowestBandCount > 0
            THEN IF lowestCount[d] * 100 >= 70 * maxLowestBandCount THEN "CLEAR"
                 ELSE IF lowestCount[d] * 100 >= 40 * maxLowestBandCount THEN "PARTIAL"
                 ELSE "SPARSE"
            ELSE "CLEAR"]

\* The tier exportReport gives each direction: its own loop over the lowest
\* horizon band and the band above it, the reference count being the largest
\* lowest-band count of all directions (0 when none is above 0).
ExportTiers(grid, minObsThreshold) ==
    LET lowestHorizonBandIdx == CHOOSE i \in HorizonBands : \A j \in HorizonBands : i <= j
        lowestCount == [d \in Sectors |-> CountOrZero(grid, <<d, lowestHorizonBandIdx>>)]
        secondCount == [d \in Sectors |-> CountOrZero(grid, <<d, lowestHorizonBandIdx + 1>>)]
        hasBothBands == [d \in Sectors |-> /\ lowestCount[d] >= minObsThreshold
                                           /\ secondCount[d] >= minObsThreshold]
        maxLowestBandCount ==
            MaxOver([d \in Sectors |-> IF lowestCount[d] > 0 THEN lowestCount[d] ELSE 0])
    IN  [d \in Sectors |->
            IF ~hasBothBands[d] THEN "BLOCKED"
            ELSE IF maxLowestBandCount > 0
            THEN IF lowestCount[d] * 100 >= 70 * maxLowestBandCount THEN "CLEAR"
                 ELSE IF lowestCount[d] * 100 >= 40 * maxLowestBandCount THEN "PARTIAL"
                 ELSE "SPARSE"
            ELSE "CLEAR"]

\* exportReport(): the report is built from the current store and handed to
\* the browser as a download; probe keeps its horizon part.  isAdvanced is
\* localStorage's advancedMode; the tiers and the breakdown are written in
\* advanced mode only.
exportReport(isAdvanced) ==
    /\ probe' = [fn |-> "exportReport", args |-> <<isAdvanced>>,
                 result |-> << [breakdown |-> IF isAdvanced
                                              THEN << [dirsClear |-> calculateSummary.dirsClear,
                                                       dirsPartial |-> calculateSummary.dirsPartial,
                                                       dirsSparse |-> calculateSummary.dirsSparse,
                                                       dirsBlocked |-> calculateSummary.dirsBlocked] >>
                                              ELSE <<>>,
                                tiers |-> IF isAdvanced
                                          THEN << ExportTiers(coverageGrid,
                                                              calculateSummary.minObsThreshold) >>
                                          ELSE <<>>] >>]
    /\ serviceEvents' = EventsAfterSort(serviceEvents)
    /\ toast' = [type |-> "success", message |-> "Report exported"]
    /\ lastOp' = [op |-> "exportReport", arg |-> <<isAdvanced>>]
    /\ scenario' = noScenario
    /\ UNCHANGED pageVars
    /\ UNCHANGED << now, isLogging, startTime, loadedDuration, loadedUptime,
                    loadedOutageCount, observer, rssiReports, svBeamReports,
                    satellites, coverageGrid, rawLines, serviceState,
                    savedFile, imports, delivered, savedAt >>

----------------------------------------------------------------------------
(* Log import (data/session.js) *)

\* A line of a log file: "[<timestamp>] +CIEV:<parts>", or (matches = FALSE)
\* a comment, a blank line or a line the pattern does not match.
LogLine(timestamp, parts) == [matches |-> TRUE, timestamp |-> timestamp, parts |-> parts]
commentLine == [matches |-> FALSE, timestamp |-> 0, parts |-> <<>>]

\* The log line a logger writes for a live line received at timestamp.
Logged(line, timestamp) == LogLine(timestamp, <<line.ind>> \o line.values)

\* `if (svBm !== 1) continue;`
ImportIsSvPosition(svBm) == svBm = 1

\* A variant of ImportElevationIndex that puts the elevations below the
\* first band into it.
ImportElevationIndexClamped(elevation) ==
    LET hits == {i \in 1..Len(elevationBands) :
                    elevation >= elevationBands[i].min /\ elevation < elevationBands[i].max}
    IN  IF elevation = NaN THEN -1
        ELSE IF hits = {} THEN (IF elevation < elevationBands[1].min THEN 0 ELSE -1)
        ELSE (CHOOSE i \in hits : \A j \in hits : i <= j) - 1

\* The elevation band of importLogFile: findIndex over the bands, -1 if none
ImportElevationIndex(elevation) ==
    LET hits == {i \in 1..Len(elevationBands) :
                    elevation >= elevationBands[i].min /\ elevation < elevationBands[i].max}
    IN  IF elevation = NaN \/ hits = {} THEN -1
        ELSE (CHOOSE i \in hits : \A j \in hits : i <= j) - 1

\* One turn of the loop of importLogFile over the lines of the file.
ImportLine(acc, line) ==
    LET timestamp == line.timestamp
        parts == line.parts
        indicator == ParseInt(At(parts, 1))
        timed == [acc EXCEPT !.firstTimestamp = IF Truthy(@) THEN @ ELSE timestamp,
                             !.lastTimestamp = timestamp]
        rssi == ParseInt(At(parts, 2))
        svId == ParseInt(At(parts, 2))
        beamId == ParseInt(At(parts, 3))
        svBm == ParseInt(At(parts, 4))
        x == ParseInt(At(parts, 5))
        y == ParseInt(At(parts, 6))
        z == ParseInt(At(parts, 7))
        ea == ecefToElevAz(x, y, z, observer)
        report == [timestamp |-> timestamp, svId |-> svId, beamId |-> beamId,
                   x |-> x, y |-> y, z |-> z,
                   azimuth |-> ea.azimuth, elevation |-> ea.elevation]
        azIdx == JsMod(ea.azimuth + 225, 3600) \div 450
        elIdx == ImportElevationIndex(ea.elevation)
    IN  IF ~line.matches THEN acc
        ELSE IF indicator = 0
        THEN IF rssi # NaN
             THEN [timed EXCEPT !.rssiReports =
                        Append(@, [timestamp |-> timestamp, rssi |-> rssi])]
             ELSE timed
        ELSE IF indicator = 1
        THEN [timed EXCEPT !.serviceEvents =
                  Append(@, [timestamp |-> timestamp,
                             available |-> (At(parts, 2) = "1")])]
        ELSE IF indicator = 3 /\ Len(parts) >= 7
        THEN IF ~ImportIsSvPosition(svBm) THEN timed
             ELSE IF ea.elevation # NaN /\ ea.elevation < 0 THEN timed
             ELSE [timed EXCEPT
                     !.svBeamReports = Append(@, report),
                     !.satellites = TrackPush(@, svId, report, beamId),
                     !.coverageGrid =
                         IF elIdx >= 0 /\ <<azIdx, elIdx>> \in GridKeys
                         THEN GridInsert(@, <<azIdx, elIdx>>, svId)
                         ELSE @]
        ELSE timed

RECURSIVE ImportLines(_, _)
ImportLines(acc, lines) ==
    IF lines = <<>> THEN acc
    ELSE ImportLines(ImportLine(acc, Head(lines)), Tail(lines))

\* importLogFile(file): the lines are read into the store's collections and
\* the time between the first and the last line is added to loadedDuration.
importLogFile(lines) ==
    LET done == ImportLines([svBeamReports |-> svBeamReports,
                             rssiReports |-> rssiReports,
                             serviceEvents |-> serviceEvents,
                             satellites |-> satellites,
                             coverageGrid |-> coverageGrid,
                             firstTimestamp |-> Null,
                             lastTimestamp |-> Null], lines)
    IN  /\ svBeamReports' = done.svBeamReports
        /\ rssiReports' = done.rssiReports
        /\ serviceEvents' = done.serviceEvents
        /\ satellites' = done.satellites
        /\ coverageGrid' = done.coverageGrid
        /\ loadedDuration' =
             IF Truthy(done.firstTimestamp) /\ Truthy(done.lastTimestamp)
             THEN OrZero(loadedDuration) + (done.lastTimestamp - done.firstTimestamp)
             ELSE loadedDuration
        /\ imports' = imports + 1
        /\ delivered' = delivered + Len(lines)
        /\ toast' = [type |-> "success", message |-> "Imported"]
        /\ lastOp' = [op |-> "importLogFile", arg |-> lines]
        /\ UNCHANGED probe
        /\ UNCHANGED pageVars
        /\ scenario' = noScenario
        /\ UNCHANGED << now, isLogging, startTime, loadedUptime,
                        loadedOutageCount, observer, rawLines, serviceState,
                        savedFile, savedAt >>

----------------------------------------------------------------------------
(* Documents a user may pick in the file dialog *)

goodDocument ==
    [ parses |-> TRUE, has |-> AllFields,
      version |-> [type |-> "number", val |-> 3],
      timestamp |-> 1, duration |-> 5, uptime |-> 4, outageCount |-> 1,
      location |-> equatorLocation,
      rssiReports |-> <<[timestamp |-> 1, rssi |-> 4]>>,
      svBeamReports |-> <<[timestamp |-> 1, svId |-> 5, beamId |-> 3,
                           x |-> 7159, y |-> 0, z |-> 0,
                           elevation |-> 900, azimuth |-> 0]>>,
      serviceEvents |-> <<[timestamp |-> 1, available |-> TRUE]>>,
      coverageGrid |-> (<<0, 0>> :> [isNull |-> FALSE, count |-> 3, satellites |-> <<1, 2, 1>>])
                       @@ (<<0, 6>> :> [isNull |-> FALSE, count |-> 7, satellites |-> <<5>>])
                       @@ (<<9, 9>> :> [isNull |-> FALSE, count |-> 2, satellites |-> <<8>>]),
      satellites |-> [iterable |-> TRUE,
                      items |-> << [isNull |-> FALSE, isArray |-> TRUE, svId |-> 5,
                                    reports |-> <<[timestamp |-> 1, elevation |-> 900,
                                                   azimuth |-> 0, beamId |-> 3]>>,
                                    beams |-> <<3, 3>>] >>] ]

\* version 2, version "3", and no version field
oldDocument == [goodDocument EXCEPT !.version = [type |-> "number", val |-> 2]]
stringVersionDocument == [goodDocument EXCEPT !.version = [type |-> "string", val |-> "3"]]
noVersionDocument == [goodDocument EXCEPT !.has = AllFields \ {"version"}]

\* {"version": 3} and nothing else
minimalDocument == [goodDocument EXCEPT !.has = {"version"}]

\* "coverageGrid": {"0_0": null}
nullCellDocument ==
    [goodDocument EXCEPT !.coverageGrid =
        (<<0, 0>> :> [isNull |-> TRUE, count |-> 0, satellites |-> <<>>])]

\* "satellites": 5
badSatellitesDocument ==
    [goodDocument EXCEPT !.satellites = [iterable |-> FALSE, items |-> <<>>]]

\* "coverageGrid": {"0_0": {...}, "constructor": {"count": 1, "satellites": [8]}}
inheritedKeyDocument ==
    [goodDocument EXCEPT !.coverageGrid =
        (<<0, 0>> :> [isNull |-> FALSE, count |-> 3, satellites |-> <<1, 2, 1>>])
        @@ (<<"constructor">> :> [isNull |-> FALSE, count |-> 1, satellites |-> <<8>>])]

\* a file that is not JSON
notJsonFile == [goodDocument EXCEPT !.parses = FALSE]

Documents == { goodDocument, oldDocument, stringVersionDocument, noVersionDocument,
               minimalDocument, nullCellDocument, badSatellitesDocument, notJsonFile }

----------------------------------------------------------------------------
(* The session engine: live lines and loads of documents *)

\* Sequences over S of length 1..n
SeqsUpTo(S, n) == UNION {[1..m -> S] : m \in 1..n}

\* The lines the serial port delivers before a load.
SessionLines ==
    { CievLine("1", <<"1">>),
      SvBeamLine("1", "1", "1", P1), SvBeamLine("1", "2", "1", P2) }

Next ==
    \/ \E line \in SessionLines : delivered < MaxLines /\ processLine(line)
    \/ \E file \in Documents : loadSession(file)
    \/ clearSession

Spec == Init /\ [][Next]_vars

----------------------------------------------------------------------------
(* The line parser and the log import *)

\* The lines the serial port delivers.
LiveLines ==
    { CievLine("0", <<"3">>),
      SvBeamLine("1", "1", "1", P1), SvBeamLine("2", "2", "1", P2),
      SvBeamLine("1", "1", "0", P1), SvBeamLine("2", "1", "x", P2) }

\* The lines of the log files.
LogLines ==
    { commentLine,
      Logged(SvBeamLine("1", "1", "1", P1), 1),
      Logged(SvBeamLine("2", "1", "0", P2), 1),
      Logged(CievLine("1", <<"1">>), 1) }

NextLines ==
    \/ \E line \in LiveLines : delivered < MaxLines /\ processLine(line)
    \/ \E lines \in SeqsUpTo(LogLines, MaxLines - delivered) : importLogFile(lines)
    \/ clearSession

SpecLines == Init /\ [][NextLines]_vars

----------------------------------------------------------------------------
(* The uptime tracker: live service events and imported ones *)

ServiceLines == { CievLine("1", <<"1">>), CievLine("1", <<"0">>) }

ServiceLogLines == {Logged(l, t) : l \in ServiceLines, t \in 1..now}

NextUptime ==
    \/ Tick(1, MaxUptimeTime)
    \/ startCIER
    \/ \E line \in ServiceLines : delivered < MaxEvents /\ processLine(line)
    \/ \E lines \in SeqsUpTo(ServiceLogLines, MaxEvents - delivered) :
          importLogFile(lines)

SpecUptime == Init /\ [][NextUptime]_vars

----------------------------------------------------------------------------
(* Resuming a survey: a document is loaded and logging goes on *)

\* {"version": 3, "duration": d, "uptime": u, "outageCount": k, ...}
ResumeDocument(d, u, k) ==
    [goodDocument EXCEPT !.duration = d, !.uptime = u, !.outageCount = k]

ResumeDocuments == { ResumeDocument(0, 0, 0), ResumeDocument(50000, 50000, 0),
                     ResumeDocument(100000, 95000, 2) }

NextResume ==
    \/ Tick(50000, 50000 * MaxResumeTicks)
    \/ startCIER
    \/ stopCIER
    \/ \E line \in ServiceLines : delivered < MaxLines /\ processLine(line)
    \/ \E file \in ResumeDocuments : loadSession(file)
    \/ Reload

SpecResume == Init /\ [][NextResume]_vars

----------------------------------------------------------------------------
(* Saving a survey and loading the saved file into a new page *)

SaveLines ==
    { CievLine("0", <<"3">>), CievLine("0", <<"x">>),
      CievLine("1", <<"1">>), CievLine("1", <<"0">>),
      SvBeamLine("1", "1", "1", P1), SvBeamLine("2", "2", "1", P2) }

NextSave ==
    \/ savedFile = <<>> /\ Tick(1, MaxTime)
    \/ savedFile = <<>> /\ startCIER
    \/ savedFile = <<>> /\ \E line \in SaveLines :
                            delivered < MaxLines /\ processLine(line)
    \/ savedFile = <<>> /\ \E file \in {goodDocument} : loadSession(file)
    \/ savedFile = <<>> /\ \E loc \in {equatorLocation} :
                            observer # loc /\ updateLocation(loc)
    \/ savedFile = <<>> /\ saveSession
    \/ savedFile # <<>> /\ Reload
    \/ savedFile # <<>> /\ FreshStore /\ loadSession(savedFile[1])

SpecSave == Init /\ [][NextSave]_vars

----------------------------------------------------------------------------
(* The horizon analysis of a loaded survey that goes on *)

\* The counts tried in the 8-14 band of the first two sectors and in the
\* 14-20 band of the first one, and the carried-over durations.
HorizonCounts == {0, 2, 3, 9, 10, 15, 16, 19, 20, 27, 28, 29, 30, 40, 100}
NeighbourCounts == {10, 40}
UpperBandCounts == {0, 40}
HorizonDurations == {3600000, 7200000, 28800000, 86400000}

\* A document whose grid has 40 observations in both horizon bands of every
\* sector, but x0 and y0 in the bands of sector 0 and x1 in the 8-14 band of
\* sector 1.
HorizonDocument(x0, y0, x1, d) ==
    [goodDocument EXCEPT
        !.duration = d, !.uptime = 0, !.outageCount = 0, !.location = defaultLocation,
        !.coverageGrid =
            [k \in Sectors \X HorizonBands |->
                [isNull |-> FALSE,
                 count |-> IF k = <<0, 0>> THEN x0
                           ELSE IF k = <<0, 1>> THEN y0
                           ELSE IF k = <<1, 0>> THEN x1
                           ELSE 40,
                 satellites |-> <<>>]]]

HorizonDocuments ==
    {HorizonDocument(x0, y0, x1, d) :
        x0 \in HorizonCounts, y0 \in UpperBandCounts,
        x1 \in NeighbourCounts, d \in HorizonDurations}

HorizonLines == { SvBeamLine("1", "1", "1", P1) }

\* The document is loaded into the new page, logging starts, and the survey
\* goes on.
NextHorizon ==
    \/ lastOp.op = "init" /\ \E file \in HorizonDocuments : loadSession(file)
    \/ lastOp.op = "loadSession" /\ startCIER
    \/ isLogging /\ Tick(3600000, 3600000 * MaxHorizonHours)
    \/ isLogging /\ \E line \in HorizonLines :
                       delivered < MaxLines /\ processLine(line)

SpecHorizon == Init /\ [][NextHorizon]_vars

\* The same survey, ended by the export of the report at any point once
\* logging goes on, in simple and in advanced mode.
NextReport ==
    \/ lastOp.op = "init" /\ \E file \in HorizonDocuments : loadSession(file)
    \/ lastOp.op = "loadSession" /\ startCIER
    \/ isLogging /\ probe = noProbe /\ Tick(3600000, 3600000 * MaxHorizonHours)
    \/ isLogging /\ probe = noProbe /\ \E line \in HorizonLines :
                       delivered < MaxLines /\ processLine(line)
    \/ isLogging /\ probe = noProbe /\ \E isAdvanced \in BOOLEAN :
                       exportReport(isAdvanced)

SpecReport == Init /\ [][NextReport]_vars

----------------------------------------------------------------------------
(* The coverage grid of a survey: observations, imports, resets, and the
   saved survey loaded again *)

\* Two satellites in the 8-14 band of sector N, and one at 5 degrees.
GridLines ==
    { SvBeamLine("1", "1", "1", P1), SvBeamLine("2", "1", "1", P1),
      SvBeamLine("1", "1", "1", P4) }

GridLogLines ==
    { Logged(SvBeamLine("2", "1", "1", P1), now),
      Logged(SvBeamLine("1", "1", "1", P4), now) }

\* Logging starts, observations arrive live and from logs, the survey is
\* saved once and the saved file loaded again, a grid with observations is
\* reset, the
\* location changed, and logging stops when all lines have arrived.
NextGrid ==
    \/ lastOp.op = "init" /\ startCIER
    \/ isLogging /\ \E line \in GridLines : delivered < MaxLines /\ processLine(line)
    \/ isLogging /\ \E lines \in SeqsUpTo(GridLogLines, MaxLines - delivered) :
                       importLogFile(lines)
    \/ isLogging /\ savedFile = <<>> /\ saveSession
    \/ savedFile # <<>> /\ loadSession(savedFile[1])
    \/ isLogging /\ coverageGrid # createEmptyCoverageGrid /\ clearSession
    \/ isLogging /\ coverageGrid # createEmptyCoverageGrid /\ initCoverageGrid
    \/ isLogging /\ \E loc \in {equatorLocation} : observer # loc /\ updateLocation(loc)
    \/ delivered >= MaxLines /\ stopCIER

SpecGrid == Init /\ [][NextGrid]_vars

----------------------------------------------------------------------------
(* The cells of the grid: observations, imports, loads and clears *)

CellDocuments == { goodDocument, minimalDocument, inheritedKeyDocument }

CellLines == { SvBeamLine("1", "1", "1", P1), SvBeamLine("2", "1", "1", P3) }

CellLogLines == {Logged(l, now) : l \in CellLines}

NextCells ==
    \/ \E line \in CellLines : delivered < MaxLines /\ processLine(line)
    \/ \E lines \in SeqsUpTo(CellLogLines, MaxLines - delivered) : importLogFile(lines)
    \/ \E file \in CellDocuments : loadSession(file)
    \/ clearSession

SpecCells == Init /\ [][NextCells]_vars

----------------------------------------------------------------------------
(* The parser: lines that are no reports, signal strengths, antenna faults *)

\* "OK", "+CIEV:x,1", "+CIEV:1", "+CIEV:7,1", "+CIEV:x,+CIEV:1,1",
\* "+CIEV:0,x", "+CIEV:0,3", "+CIEV:2,1", "+CIEV:2,0", "+CIEV:1,1"
ParserLines ==
    { plainLine, CievLine("x", <<"1">>), CievLine("1", <<>>), CievLine("7", <<"1">>),
      CievLine("x", <<"+CIEV:1", "1">>),
      CievLine("0", <<"x">>), CievLine("0", <<"3">>),
      CievLine("2", <<"1">>), CievLine("2", <<"0">>),
      CievLine("1", <<"1">>) }

\* "[..] +CIEV:0,x" and "[..] +CIEV:0,3"
ParserLogLines ==
    { Logged(CievLine("0", <<"x">>), now), Logged(CievLine("0", <<"3">>), now) }

NextParser ==
    \/ \E line \in ParserLines : delivered < MaxLines /\ processLine(line)
    \/ \E lines \in SeqsUpTo(ParserLogLines, MaxLines - delivered) : importLogFile(lines)

SpecParser == Init /\ [][NextParser]_vars

----------------------------------------------------------------------------
(* Starting and stopping: the clicks on the start button and on the TLE
   buttons, the delay of startCIER, and the service lines of the modem *)

NextLogging ==
    \/ Tick(300, 1 + 300 * MaxLoggingTicks)
    \/ startCIERSend
    \/ startCIERResume
    \/ stopCIER
    \/ startPredictionUpdates
    \/ stopPredictionUpdates
    \/ (delivered < MaxLines /\ \E line \in ServiceLines : processLine(line))

SpecLogging == Init /\ [][NextLogging]_vars

----------------------------------------------------------------------------
(* Clearing a survey: documents are loaded, logging goes on, lines arrive
   live and from logs, and the session is cleared at any point *)

ClearDocuments == { ResumeDocument(100000, 95000, 2), inheritedKeyDocument }

ClearLines ==
    { CievLine("0", <<"3">>), CievLine("1", <<"1">>), SvBeamLine("1", "1", "1", P1) }

ClearLogLines == {Logged(l, now) : l \in ClearLines}

NextClear ==
    \/ startCIER
    \/ stopCIER
    \/ \E line \in ClearLines : delivered < MaxLines /\ processLine(line)
    \/ \E lines \in SeqsUpTo(ClearLogLines, MaxLines - delivered) : importLogFile(lines)
    \/ \E file \in ClearDocuments : loadSession(file)
    \/ clearSession

SpecClear == Init /\ [][NextClear]_vars

----------------------------------------------------------------------------
(* The assessment of a survey: service events arrive live and from logs, in
   and out of order, and the assessment is computed at any point *)

AssessLines == ServiceLines \cup { SvBeamLine("1", "1", "1", P1) }

NextAssess ==
    \/ Tick(1, MaxUptimeTime)
    \/ startCIER
    \/ \E line \in AssessLines : delivered < MaxLines /\ processLine(line)
    \/ \E lines \in SeqsUpTo(ServiceLogLines, MaxLines - delivered) :
          importLogFile(lines)
    \/ calculateAssessment

SpecAssess == Init /\ [][NextAssess]_vars

----------------------------------------------------------------------------
(* Sky positions: the observer's location is entered, and position reports
   arrive live and from logs *)

\* "+CIEV:3,1,1,1,x,0,0" is a position report with a garbled coordinate.
SkyLines ==
    { SvBeamLine("1", "1", "1", P1), SvBeamLine("1", "1", "1", P5),
      CievLine("3", <<"1", "1", "1", "x", "0", "0">>) }

SkyLogLines == {Logged(l, now) : l \in SkyLines}

NextSky ==
    \/ \E loc \in {defaultLocation, antimeridianLocation} :
          observer # loc /\ updateLocation(loc)
    \/ \E line \in SkyLines : delivered < MaxLines /\ processLine(line)
    \/ \E lines \in SeqsUpTo(SkyLogLines, MaxLines - delivered) : importLogFile(lines)

SpecSky == Init /\ [][NextSky]_vars

----------------------------------------------------------------------------
(* Connecting and logging: the clicks on the connect button and on the start
   button (enabled while connected), and the awaits of disconnect() and
   startCIER() *)

NextSerial ==
    \/ Tick(300, 1 + 300 * MaxLoggingTicks)
    \/ \E ok \in BOOLEAN : connect(ok)
    \/ disconnect
    \/ disconnectStopped
    \/ disconnectClosed
    \/ isConnected /\ startCIERSend
    \/ startCIERResume
    \/ isConnected /\ stopCIER

SpecSerial == Init /\ [][NextSerial]_vars

----------------------------------------------------------------------------
(* The tracks of a survey that is saved and loaded again: position reports
   arrive live and from logs, with numeric and with garbled satellite
   numbers, and any saved file may be loaded back *)

TrackLines == { SvBeamLine("1", "1", "1", P1), SvBeamLine("x", "2", "1", P1) }

TrackLogLines == { Logged(line, 1) : line \in TrackLines }

NextTrack ==
    \/ \E line \in TrackLines : delivered < MaxLines /\ processLine(line)
    \/ \E lines \in SeqsUpTo(TrackLogLines, MaxLines - delivered) :
          lines # <<>> /\ importLogFile(lines)
    \/ svBeamReports # <<>> /\ clearSession
    \/ svBeamReports # <<>> /\ saveSession
    \/ savedFile # <<>> /\ loadSession(savedFile[1])

SpecTrack == Init /\ [][NextTrack]_vars

----------------------------------------------------------------------------
(* Calls of the pure functions: probe holds the function, its arguments
   and, once the call has returned, <<result>> *)

\* The uptime percentages tried, in tenths of a percent, and the total times.
ProbeUptimes == {0, 599, 600, 799, 800, 899, 900, 949, 950, 1000}
ProbeTotals == {60000, 100000}

\* The direction counts <<clear, partial, sparse, blocked>> of 8 sectors.
DirectionCounts ==
    {t \in (0..Len(azimuthSectors)) \X (0..Len(azimuthSectors))
             \X (0..Len(azimuthSectors)) \X (0..Len(azimuthSectors)) :
        t[1] + t[2] + t[3] + t[4] = Len(azimuthSectors)}

\* The non-null result of calculateServiceUptime for the given times.
ServiceStats(uptimeMs, totalMs) ==
    [isNull |-> FALSE, uptimeMs |-> uptimeMs, totalMs |-> totalMs, outageCount |-> 0,
     percentage |-> [num |-> uptimeMs * 100, den |-> totalMs]]

\* The horizonAnalysis with the given direction counts.
HorizonAnalysis(t) ==
    [dirsClear |-> t[1], dirsPartial |-> t[2], dirsSparse |-> t[3], dirsBlocked |-> t[4]]

\* getVerdict({serviceStats, horizonAnalysis}) with
\* args = <<uptimeMs, totalMs, clear, partial, sparse, blocked>>
VerdictCalls ==
    {[fn |-> "getVerdict",
      args |-> <<(u * t) \div 1000, t, d[1], d[2], d[3], d[4]>>,
      result |-> <<>>] : u \in ProbeUptimes, t \in ProbeTotals, d \in DirectionCounts}

\* getElevationIndex(e), e in tenths of a degree
ElevationCalls ==
    {[fn |-> "getElevationIndex", args |-> <<e>>, result |-> <<>>] :
        e \in (0 - ElevationMargin)..(900 + ElevationMargin)}

\* getAzimuthIndex(a), a in tenths of a degree, every half degree of
\* MaxTurns turns on either side of 0
AzimuthCalls ==
    {[fn |-> "getAzimuthIndex", args |-> <<5 * k>>, result |-> <<>>] :
        k \in (0 - 720 * MaxTurns)..(720 * MaxTurns)}

InitProbe ==
    /\ InitPage
    /\ \/ probe \in VerdictCalls
       \/ probe \in ElevationCalls
       \/ probe \in AzimuthCalls

Return(value) ==
    /\ probe' = [probe EXCEPT !.result = <<value>>]
    /\ lastOp' = [op |-> probe.fn, arg |-> probe.args]
    /\ UNCHANGED << now, isLogging, startTime, loadedDuration, loadedUptime,
                    loadedOutageCount, observer, rssiReports, svBeamReports,
                    satellites, coverageGrid, rawLines, serviceEvents,
                    serviceState, savedFile, imports, delivered, savedAt, toast,
                    scenario >>
    /\ UNCHANGED pageVars

CallGetVerdict ==
    /\ probe.fn = "getVerdict"
    /\ probe.result = <<>>
    /\ Return(GetVerdictOf(ServiceStats(probe.args[1], probe.args[2]),
                           HorizonAnalysis(SubSeq(probe.args, 3, 6))))

CallGetElevationIndex ==
    /\ probe.fn = "getElevationIndex"
    /\ probe.result = <<>>
    /\ Return(getElevationIndex(probe.args[1]))

CallGetAzimuthIndex ==
    /\ probe.fn = "getAzimuthIndex"
    /\ probe.result = <<>>
    /\ Return(getAzimuthIndex(probe.args[1]))

NextProbe ==
    \/ CallGetVerdict
    \/ CallGetElevationIndex
    \/ CallGetAzimuthIndex

SpecProbe == InitProbe /\ [][NextProbe]_vars

----------------------------------------------------------------------------
(* The two readers of indicator lines: a sequence of lines is fed to
   processLine line by line, what the engine holds is kept in probe, the
   session is cleared, and the same lines are read with importLogFile *)

\* P3 is at exactly 90 degrees for the observer at latitude 0, longitude 0.
TwinLines ==
    { SvBeamLine("1", "1", "1", P1), SvBeamLine("2", "2", "1", P3),
      CievLine("1", <<"1">>), CievLine("1", <<"0">>) }

\* The sequences of lines read by both readers.
TwinCalls ==
    {[fn |-> "processLines", args |-> lines, result |-> <<>>] :
        lines \in SeqsUpTo(TwinLines, MaxLines)}

\* The lines of a log file that holds the given lines.
LoggedAll(lines) == [i \in 1..Len(lines) |-> Logged(lines[i], now)]

InitTwin ==
    /\ InitPage
    /\ probe \in TwinCalls

\* The lines have been fed to processLine one by one.
CallProcessLines ==
    /\ probe.fn = "processLines"
    /\ probe.result = <<>>
    /\ delivered = Len(probe.args)
    /\ Return([coverageGrid |-> coverageGrid, satellites |-> satellites,
               serviceEvents |-> serviceEvents])

NextTwin ==
    \/ lastOp.op = "init" /\ updateLocation(equatorLocation)
    \/ /\ probe.result = <<>>
       /\ delivered < Len(probe.args)
       /\ processLine(probe.args[delivered + 1])
    \/ CallProcessLines
    \/ lastOp.op = "processLines" /\ clearSession
    \/ /\ probe.result # <<>>
       /\ lastOp.op = "clearSession"
       /\ importLogFile(LoggedAll(probe.args))

SpecTwin == InitTwin /\ [][NextTwin]_vars

----------------------------------------------------------------------------
(* Claims about the uptime tracker *)

\* C1: after loadSession of a document with duration D, uptime U and
\* outageCount K into a fresh engine and a live session of length L that is
\* online from its start, calculateServiceUptime returns totalMs = D + L,
\* uptimeMs = U + L, outageCount = K and the percentage (U+L)/(D+L)*100
\* (whenever D + L > 0, so that the percentage exists).
C1_ResumedFullyOnline ==
    scenario.phase = "online" =>
        LET D == scenario.file[1].duration
            U == scenario.file[1].uptime
            K == scenario.file[1].outageCount
            L == now - startTime
            r == calculateServiceUptime
        IN  D + L > 0 =>
              /\ ~r.isNull
              /\ r.totalMs = D + L
              /\ r.uptimeMs = U + L
              /\ r.outageCount = K
              /\ r.percentage = [num |-> (U + L) * 100, den |-> D + L]

\* The scenario of the specification: D = 100000, U = 95000, K = 2,
\* L = 100000 gives 97.5 % (975 / 10).
C1_Witness ==
    /\ scenario.phase = "online"
    /\ scenario.file[1] = ResumeDocument(100000, 95000, 2)
    /\ now - startTime = 100000
    /\ calculateServiceUptime.percentage.num * 10
         = 975 * calculateServiceUptime.percentage.den

\* C2: appending a second "online" event with no intervening "offline"
\* event does not change the total uptime that calculateServiceUptime
\* returns at the same instant.
C2_RepeatedOnlineAbsorbed ==
    [][ ( /\ lastOp'.op = "processLine"
          /\ lastOp'.arg = CievLine("1", <<"1">>)
          /\ WalkEvents(serviceEvents).lastOnTime # Null )
        => calculateServiceUptime'.uptimeMs = calculateServiceUptime.uptimeMs ]_vars

\* The place of event i of evs when the events are taken in timestamp order
\* (events of one timestamp in arrival order).
PlaceInTimestampOrder(evs, i) ==
    1 + Cardinality({j \in 1..Len(evs) :
                        \/ evs[j].timestamp < evs[i].timestamp
                        \/ evs[j].timestamp = evs[i].timestamp /\ j < i})

InTimestampOrder(evs) ==
    [k \in 1..Len(evs) |->
        evs[CHOOSE i \in 1..Len(evs) : PlaceInTimestampOrder(evs, i) = k]]

\* The offline events that find a start pending: those that directly follow
\* an online event.
EndsOfUptime(s) == {k \in 2..Len(s) : ~s[k].available /\ s[k - 1].available}

RECURSIVE SumOfSpans(_, _)
SumOfSpans(s, ks) ==
    IF ks = {} THEN 0
    ELSE LET k == CHOOSE x \in ks : TRUE
         IN  (s[k].timestamp - s[k - 1].timestamp) + SumOfSpans(s, ks \ {k})

ExpectedSessionUptime(evs, t) ==
    LET s == InTimestampOrder(evs)
    IN  SumOfSpans(s, EndsOfUptime(s))
        + (IF Len(s) > 0 /\ s[Len(s)].available THEN t - s[Len(s)].timestamp ELSE 0)

ExpectedSessionOutages(evs) == Cardinality(EndsOfUptime(InTimestampOrder(evs)))

\* C3: for every sequence of service events the session uptime is the sum,
\* over the events in timestamp order, of (offline - pending online) for each
\* offline event that finds a start pending, plus (now - pending start) if
\* the walk ends online; the outage count is the number of those offline
\* events.
C3_UptimeIsSumOfSpans ==
    LET w == WalkEvents(serviceEvents)
        r == calculateServiceUptime
    IN  /\ w.sessionUptimeMs + (IF w.lastOnTime # Null THEN now - w.lastOnTime ELSE 0)
             = ExpectedSessionUptime(serviceEvents, now)
        /\ w.sessionOutageCount = ExpectedSessionOutages(serviceEvents)
        /\ ~r.isNull =>
             /\ r.uptimeMs = loadedUptime + ExpectedSessionUptime(serviceEvents, now)
             /\ r.outageCount = loadedOutageCount + ExpectedSessionOutages(serviceEvents)

\* Events out of timestamp order, an offline event with no start pending, an
\* outage, and a numeric result.
C3_Witness ==
    /\ ~calculateServiceUptime.isNull
    /\ \E i \in 1..Len(serviceEvents) : \E j \in 1..Len(serviceEvents) :
          i < j /\ serviceEvents[j].timestamp < serviceEvents[i].timestamp
    /\ ~InTimestampOrder(serviceEvents)[1].available
    /\ ExpectedSessionOutages(serviceEvents) >= 1
    /\ ExpectedSessionUptime(serviceEvents, now) >= 1

----------------------------------------------------------------------------
(* Claims about the line parser and the log import *)

\* A live position event (indicator 3, six values) whose flag is not 1.
BeamLanding(line) ==
    /\ Indicator(line) = 3
    /\ Len(line.values) >= 6
    /\ ParseInt(line.values[3]) # 1

\* The same event as a line of a log file.
LoggedBeamLanding(l) ==
    /\ l.matches
    /\ ParseInt(At(l.parts, 1)) = 3
    /\ Len(l.parts) >= 7
    /\ ParseInt(l.parts[4]) # 1

NotLoggedBeamLanding(l) == ~LoggedBeamLanding(l)

\* What importLogFile starts from.
StoreCollections ==
    [svBeamReports |-> svBeamReports, rssiReports |-> rssiReports,
     serviceEvents |-> serviceEvents, satellites |-> satellites,
     coverageGrid |-> coverageGrid, firstTimestamp |-> Null, lastTimestamp |-> Null]

\* C4: a position event whose flag is not 1 never changes the coverage grid,
\* a satellite track or svBeamReports: processLine of such a line leaves the
\* three unchanged, and importLogFile leaves them as the same file without
\* its flag-not-1 position lines would.
C4_BeamLandingsExcluded ==
    [][ /\ ( lastOp'.op = "processLine" /\ BeamLanding(lastOp'.arg) )
           => UNCHANGED << coverageGrid, satellites, svBeamReports >>
        /\ lastOp'.op = "importLogFile"
           => LET kept == ImportLines(StoreCollections,
                                      SelectSeq(lastOp'.arg, NotLoggedBeamLanding))
              IN  /\ coverageGrid' = kept.coverageGrid
                  /\ satellites' = kept.satellites
                  /\ svBeamReports' = kept.svBeamReports ]_vars

\* A beam landing has just been processed in a store that holds observations,
\* after a log with a beam landing was imported.
C4_Witness ==
    /\ lastOp.op = "processLine"
    /\ BeamLanding(lastOp.arg)
    /\ lastOp.arg.values[3] = "0"
    /\ svBeamReports # <<>>
    /\ imports >= 1

----------------------------------------------------------------------------
(* Claims about loadSession *)

\* The document parses and its version field is not the number 3.
VersionDiffers(file) ==
    /\ file.parses
    /\ \/ "version" \notin file.has
       \/ file.version # [type |-> "number", val |-> 3]

\* C5: loadSession of a document whose version is not 3 (a missing or a
\* non-integer version included) shows an error to the user and leaves every
\* store field as it was.
C5_VersionMismatchRejected ==
    [][ ( lastOp'.op = "loadSession" /\ VersionDiffers(lastOp'.arg) )
        => ( toast'.type = "error" /\ UNCHANGED store ) ]_vars

\* The document with version "3" has just been refused by a store that holds
\* data.
C5_Witness ==
    /\ lastOp.op = "loadSession"
    /\ lastOp.arg = stringVersionDocument
    /\ toast.type = "error"
    /\ svBeamReports # <<>>
    /\ serviceEvents # <<>>

\* C6: a load that fails after the version check has passed has changed no
\* store field.
C6_LoadAllOrNothing ==
    [][ ( /\ lastOp'.op = "loadSession"
          /\ lastOp'.arg.parses
          /\ ~VersionDiffers(lastOp'.arg)
          /\ toast'.type = "error" )
        => UNCHANGED store ]_vars

\* C7: deserializeCoverageGrid(serializeCoverageGrid(grid)) has the 56 cells
\* of grid, each with the same count and the same set of satellite IDs.
C7_GridRoundTrip ==
    LET back == deserializeCoverageGrid(serializeCoverageGrid(coverageGrid))
    IN  /\ DOMAIN back = GridKeys
        /\ \A k \in GridKeys :
              /\ back[k].count = coverageGrid[k].count
              /\ Range(back[k].satellites) = Range(coverageGrid[k].satellites)

\* The grid of the example: a cell with count 3 and satellites {1, 2}, a
\* cell with count 7 and satellites {5}, and empty cells.
C7_Witness ==
    /\ Cardinality(GridKeys) = 56
    /\ \E k \in GridKeys : /\ coverageGrid[k].count = 3
                           /\ Range(coverageGrid[k].satellites) = {1, 2}
    /\ \E k \in GridKeys : /\ coverageGrid[k].count = 7
                           /\ Range(coverageGrid[k].satellites) = {5}
    /\ \E k \in GridKeys : coverageGrid[k].count = 0

\* C8: after saveSession and a load of the saved document into a new store,
\* calculateServiceUptime returns the totalMs, uptimeMs and outageCount it
\* returned at the save, and the observer, the report lists, the coverage
\* grid and the satellite tracks equal the saved ones.
C8_SaveLoadRoundTrip ==
    ( /\ lastOp.op = "loadSession"
      /\ savedFile # <<>>
      /\ lastOp.arg = savedFile[1] )
    => /\ calculateServiceUptime.isNull = savedAt.serviceStats.isNull
       /\ calculateServiceUptime.totalMs = savedAt.serviceStats.totalMs
       /\ calculateServiceUptime.uptimeMs = savedAt.serviceStats.uptimeMs
       /\ calculateServiceUptime.outageCount = savedAt.serviceStats.outageCount
       /\ observer = savedAt.observer
       /\ rssiReports = savedAt.rssiReports
       /\ svBeamReports = savedAt.svBeamReports
       /\ coverageGrid = savedAt.coverageGrid
       /\ satellites = savedAt.satellites

\* The number the document gives for a field, 0 when it gives none.
DocumentNumber(file, name) == IF name \in file.has THEN file[name] ELSE 0

\* C9: after a successful loadSession the three accumulators are the
\* document's duration, uptime and outageCount, and serviceEvents is empty.
C9_AccumulatorsReplaced ==
    ( lastOp.op = "loadSession" /\ toast.type = "success" )
    => /\ loadedDuration = DocumentNumber(lastOp.arg, "duration")
       /\ loadedUptime = DocumentNumber(lastOp.arg, "uptime")
       /\ loadedOutageCount = DocumentNumber(lastOp.arg, "outageCount")
       /\ serviceEvents = <<>>

\* goodDocument has just been loaded into a store that had service events
\* of its own.
C9_Witness ==
    /\ lastOp.op = "loadSession"
    /\ lastOp.arg = goodDocument
    /\ toast.type = "success"
    /\ serviceState.available # Null
    /\ loadedDuration = 5
    /\ loadedUptime = 4
    /\ loadedOutageCount = 1

\* The cell and the tracks a document carries.
DocumentCell(file, k) ==
    IF "coverageGrid" \in file.has /\ k \in DOMAIN file.coverageGrid
    THEN file.coverageGrid[k]
    ELSE [isNull |-> FALSE, count |-> 0, satellites |-> <<>>]

DocumentTrackIds(file) ==
    IF "satellites" \in file.has
    THEN {file.satellites.items[i].svId : i \in 1..Len(file.satellites.items)}
    ELSE {}

\* C10: after a successful loadSession the coverage grid and the satellite
\* tracks hold what the document carries and nothing of the state before.
C10_GridAndTracksReplaced ==
    ( lastOp.op = "loadSession" /\ toast.type = "success" )
    => /\ \A k \in GridKeys :
            /\ coverageGrid[k].count = DocumentCell(lastOp.arg, k).count
            /\ Range(coverageGrid[k].satellites)
                 = Range(DocumentCell(lastOp.arg, k).satellites)
       /\ {satellites[i].svId : i \in 1..Len(satellites)} = DocumentTrackIds(lastOp.arg)

----------------------------------------------------------------------------
(* The verdict and the horizon analysis *)

\* The carried-over duration plus the live elapsed time.
TotalElapsedTime ==
    loadedDuration + (IF startTime = Null \/ startTime = 0 THEN 0 ELSE now - startTime)

QualityVerdicts == {"EXCELLENT", "GOOD", "ADEQUATE", "MARGINAL", "POOR"}

\* C11: while the carried-over duration plus the live elapsed time is below
\* 60 seconds, getVerdict gives the insufficient-data result ("--",
\* "Collecting data...") and none of the five quality verdicts, whatever the
\* service events and the grid hold.
C11_VerdictNeedsOneMinute ==
    TotalElapsedTime < 60000
    => /\ getVerdict.short = "--"
       /\ getVerdict.detail = "Collecting data..."
       /\ getVerdict.short \notin QualityVerdicts

\* 50 seconds into a survey with nothing carried over, with service events
\* and numeric uptime statistics: the verdict is still "--".
C11_Witness ==
    /\ loadedDuration = 0
    /\ startTime # Null
    /\ now - startTime = 50000
    /\ serviceEvents # <<>>
    /\ ~calculateServiceUptime.isNull
    /\ getVerdict.short = "--"

\* C12: calculateServiceUptime gives null, not a numeric result, whenever
\* the total elapsed time is below 60 seconds and loadedDuration is 0.
C12_UptimeNullBelowOneMinute ==
    ( loadedDuration = 0 /\ TotalElapsedTime < 60000 )
    => calculateServiceUptime.isNull

\* The horizon score of the direction counts: 100 times the weighted sum
\* (clear 1.0, partial 0.7, sparse 0.3) over 8, rounded to the nearest
\* integer.
WeightedHorizonScore(c, p, s) ==
    (2 * 100 * (10 * c + 7 * p + 3 * s) + 80) \div 160

\* The verdict of the ordered list for an uptime of uptimeMs out of totalMs
\* and the direction counts.
FirstMatchingRule(uptimeMs, totalMs, c, p, s, b) ==
    IF 100 * uptimeMs >= 95 * totalMs /\ c >= 7 /\ b = 0 /\ s = 0 THEN "EXCELLENT"
    ELSE IF 100 * uptimeMs >= 90 * totalMs /\ c >= 5 /\ b = 0 /\ s <= 1 THEN "GOOD"
    ELSE IF 100 * uptimeMs >= 80 * totalMs /\ b <= 1
            /\ WeightedHorizonScore(c, p, s) >= 50 THEN "ADEQUATE"
    ELSE IF 100 * uptimeMs >= 60 * totalMs /\ b <= 2 THEN "MARGINAL"
    ELSE "POOR"

MinObservations(ms) ==
    IF ms < 7200000 THEN 3
    ELSE IF ms < 28800000 THEN 10
    ELSE IF ms < 86400000 THEN 20
    ELSE 30

\* The largest count of the 8-14 band over the 8 directions.
MaxCount ==
    CHOOSE m \in {coverageGrid[<<d, 0>>].count : d \in 0..7} :
        \A d \in 0..7 : coverageGrid[<<d, 0>>].count <= m

\* The class of a direction as the specification gives it.
DirectionClass(d) ==
    IF \/ coverageGrid[<<d, 0>>].count < MinObservations(TotalElapsedTime)
       \/ coverageGrid[<<d, 1>>].count < MinObservations(TotalElapsedTime)
    THEN "blocked"
    ELSE IF 100 * coverageGrid[<<d, 0>>].count >= 70 * MaxCount THEN "clear"
    ELSE IF 100 * coverageGrid[<<d, 0>>].count >= 40 * MaxCount THEN "partial"
    ELSE "sparse"

\* C14: analyzeHorizonVisibility gives a direction the class Blocked when
\* one of its two horizon bands (8-14, 14-20) has fewer observations than
\* the minimum for the survey's duration; otherwise, by the ratio of its
\* 8-14 count to the largest 8-14 count of the 8 directions, Clear from
\* 0.70, Partial from 0.40 and Sparse below; the four totals count the
\* directions of each class.
C14_DirectionClasses ==
    /\ \A d \in 0..7 : analyzeHorizonVisibility.classification[d] = DirectionClass(d)
    /\ analyzeHorizonVisibility.dirsClear
         = Cardinality({d \in 0..7 : DirectionClass(d) = "clear"})
    /\ analyzeHorizonVisibility.dirsPartial
         = Cardinality({d \in 0..7 : DirectionClass(d) = "partial"})
    /\ analyzeHorizonVisibility.dirsSparse
         = Cardinality({d \in 0..7 : DirectionClass(d) = "sparse"})
    /\ analyzeHorizonVisibility.dirsBlocked
         = Cardinality({d \in 0..7 : DirectionClass(d) = "blocked"})

\* Seven directions with 40 observations and one with 10 in the 8-14 band,
\* every horizon band at the minimum of 10 or above, two hours into the
\* survey: that direction is Sparse and the seven others Clear.
C14_Witness ==
    /\ TotalElapsedTime = 7200000
    /\ coverageGrid[<<1, 0>>].count = 10
    /\ \A d \in (0..7) \ {1} : coverageGrid[<<d, 0>>].count = 40
    /\ \A d \in 0..7 : coverageGrid[<<d, 1>>].count = 40
    /\ analyzeHorizonVisibility.classification[1] = "sparse"
    /\ \A d \in (0..7) \ {1} : analyzeHorizonVisibility.classification[d] = "clear"

----------------------------------------------------------------------------
(* Claims about the coverage grid *)

\* C15: every cell's count is at least the number of distinct satellite IDs
\* of its set, and at least 0, after live position events, log imports,
\* clearSession and loads of saved documents.
C15_CountCoversSatellites ==
    \A k \in DOMAIN coverageGrid :
        /\ coverageGrid[k].count >= 0
        /\ coverageGrid[k].count >= Cardinality(Range(coverageGrid[k].satellites))

\* A saved survey has been loaded whose cell of sector N, band 8-14 has
\* two observations of two satellites.
C15_Witness ==
    /\ lastOp.op = "loadSession"
    /\ toast.type = "success"
    /\ coverageGrid[<<0, 0>>].count = 2
    /\ Cardinality(Range(coverageGrid[<<0, 0>>].satellites)) = 2

\* No count of the grid is lower after the step than before.
NoCountLowered ==
    \A k \in GridKeys : coverageGrid'[k].count >= coverageGrid[k].count

\* C16 as stated: across every step but clearSession and initCoverageGrid,
\* session load included, no cell's count decreases.
C16_OnlyResetsLowerCounts ==
    [][ lastOp'.op \notin {"clearSession", "initCoverageGrid"} => NoCountLowered ]_vars

\* C16: across every step but clearSession, initCoverageGrid and a session
\* load, which puts the document's grid in the place of the current one, no
\* cell's count decreases: live position events, log import, location
\* changes, start and stop of logging and save never lower a count.
C16_CountsGrowBetweenReplacements ==
    [][ lastOp'.op \notin {"clearSession", "initCoverageGrid", "loadSession"}
        => NoCountLowered ]_vars

\* A second live observation has raised the count of a cell to 2.
C16_Witness ==
    /\ lastOp.op = "processLine"
    /\ coverageGrid[<<0, 0>>].count = 2

\* The elevation, for the observer, of the position a line or a log line
\* gives, the values being those after the indicator.
ElevationOf(values) ==
    ecefToElevAz(ParseInt(values[4]), ParseInt(values[5]), ParseInt(values[6]),
                 observer).elevation

\* A position observation (positionType 1) below 8 degrees.
LowPosition(ind, values) ==
    /\ ParseInt(ind) = 3
    /\ Len(values) >= 6
    /\ ParseInt(values[3]) = 1
    /\ ElevationOf(values) < 80

\* C18: a position observation (positionType 1) with an elevation below
\* 8 degrees changes no cell's count or satellite set, whether it arrives
\* live or in an imported log.
C18_LowElevationIgnored ==
    [][ /\ ( /\ lastOp'.op = "processLine"
             /\ LowPosition(lastOp'.arg.ind, lastOp'.arg.values) )
           => coverageGrid' = coverageGrid
        /\ ( /\ lastOp'.op = "importLogFile"
             /\ \A i \in 1..Len(lastOp'.arg) :
                   LowPosition(At(lastOp'.arg[i].parts, 1), Tail(lastOp'.arg[i].parts)) )
           => coverageGrid' = coverageGrid ]_vars

\* A position at 5 degrees has been processed live; its report is kept and
\* the grid is empty.
C18_Witness ==
    /\ lastOp.op = "processLine"
    /\ LowPosition(lastOp.arg.ind, lastOp.arg.values)
    /\ ElevationOf(lastOp.arg.values) = 50
    /\ svBeamReports # <<>>
    /\ coverageGrid = createEmptyCoverageGrid

\* A position observation (positionType 1) of 8 degrees or more.
HighPosition(ind, values) ==
    /\ ParseInt(ind) = 3
    /\ Len(values) >= 6
    /\ ParseInt(values[3]) = 1
    /\ ElevationOf(values) >= 80

\* C17: the grid has exactly the 56 cells keyed by sector 0..7 and band
\* 0..6 in every reachable state: no live event, log import, load of an
\* accepted document or clear adds a cell with another key or removes one,
\* and every live observation of 8 degrees or more lands on one of the 56.
C17_ExactlyTheGridCells ==
    [][ /\ DOMAIN coverageGrid = (0..7) \X (0..6)
        /\ DOMAIN coverageGrid' = (0..7) \X (0..6)
        /\ Cardinality(DOMAIN coverageGrid') = 56
        /\ ( /\ lastOp'.op = "processLine"
             /\ HighPosition(lastOp'.arg.ind, lastOp'.arg.values) )
           => \E k \in (0..7) \X (0..6) :
                 coverageGrid'[k].count = coverageGrid[k].count + 1 ]_vars

----------------------------------------------------------------------------
(* Claims about the grid indexes *)

\* The bands of the specification in tenths of a degree: [8, 14), [14, 20),
\* [20, 35), [35, 50), [50, 65), [65, 80) and [80, 90].
InBand(e, i) ==
    CASE i = 0 -> 80 <= e /\ e < 140
      [] i = 1 -> 140 <= e /\ e < 200
      [] i = 2 -> 200 <= e /\ e < 350
      [] i = 3 -> 350 <= e /\ e < 500
      [] i = 4 -> 500 <= e /\ e < 650
      [] i = 5 -> 650 <= e /\ e < 800
      [] i = 6 -> 800 <= e /\ e <= 900

\* C19: getElevationIndex maps an elevation to the index of the band
\* [8,14), [14,20), [20,35), [35,50), [50,65), [65,80), [80,90] holding it
\* (90 itself in the last band) and to -1 below 8 degrees; every elevation
\* of [8, 90] is in exactly one band.
C19_ElevationBands ==
    ( /\ probe.fn = "getElevationIndex"
      /\ probe.result # <<>>
      /\ probe.args[1] <= 900 )
    => /\ probe.args[1] < 80 => probe.result[1] = -1
       /\ probe.args[1] >= 80 =>
            /\ probe.result[1] \in 0..6
            /\ InBand(probe.args[1], probe.result[1])
            /\ Cardinality({i \in 0..6 : InBand(probe.args[1], i)}) = 1

\* getElevationIndex has returned the last band for exactly 90 degrees.
C19_Witness ==
    /\ probe.fn = "getElevationIndex"
    /\ probe.args = <<900>>
    /\ probe.result = <<6>>

\* C20: getAzimuthIndex gives the same sector for an azimuth a and for
\* a + 360 degrees, negative azimuths included.
C20_AzimuthPeriodic ==
    ( probe.fn = "getAzimuthIndex" /\ probe.result # <<>> )
    => probe.result[1] = getAzimuthIndex(probe.args[1] + 3600)

----------------------------------------------------------------------------
(* Claims about the parser *)

\* The line is no indicator report: it has no "+CIEV:" prefix, its
\* indicator is not a number, it has no values, or its indicator is not one
\* of 0..3.
NoIndicatorReport(line) ==
    \/ ~line.ciev
    \/ line.ind \notin {"0", "1", "2", "3", "7"}
    \/ line.values = <<>>
    \/ line.ind \notin {"0", "1", "2", "3"}

\* C21: processLine of a line that is no indicator report leaves the
\* signal-strength reports, the service events, the service state, the
\* sky positions, the satellite tracks and the coverage grid unchanged.
C21_MalformedLinesDropped ==
    [][ ( lastOp'.op = "processLine" /\ NoIndicatorReport(lastOp'.arg) )
        => UNCHANGED << rssiReports, serviceEvents, serviceState,
                        svBeamReports, satellites, coverageGrid >> ]_vars

\* C22: every stored signal-strength report holds an integer: a line of
\* indicator 0 whose payload is not numeric adds no report, live and on
\* import.
C22_SignalReportsAreIntegers ==
    \A i \in 1..Len(rssiReports) : rssiReports[i].rssi # NaN

\* C23: an antenna-fault event is emitted only when the fault becomes
\* asserted: a fault=0 line emits none, and a fault=1 line emits none when
\* the indicator-2 line before it was fault=1 too.
C23_FaultOnlyOnTransition ==
    [][ ( /\ lastOp'.op = "processLine"
          /\ lastOp'.arg.ciev
          /\ lastOp'.arg.ind = "2"
          /\ lastOp'.arg.values # <<>>
          /\ \/ lastOp'.arg.values[1] # "1"
             \/ previousFault = 1 )
        => antennaFaultEvents' = antennaFaultEvents ]_vars

----------------------------------------------------------------------------
(* Claims about the documented verdict criteria *)

\* C24: whenever getVerdict returns ADEQUATE, the uptime is at least 80 %,
\* at least 4 directions are Clear and at most 1 direction is Blocked, as
\* the Site Assessment help says.
C24_AdequateAsDocumented ==
    ( /\ probe.fn = "getVerdict"
      /\ probe.result # <<>>
      /\ probe.result[1].short = "ADEQUATE" )
    => /\ 100 * probe.args[1] >= 80 * probe.args[2]
       /\ probe.args[3] >= 4
       /\ probe.args[6] <= 1

----------------------------------------------------------------------------
(* Claims about starting and stopping *)

\* The timers scheduled with the given callback.
Scheduled(callback) == {t \in intervals : t.callback = callback}

\* C25: at most one duration timer and at most one prediction timer is
\* scheduled at any time, and each is the one its handle names: every
\* start has cancelled the timer scheduled before.
C25_AtMostOneTimerOfAKind ==
    /\ Cardinality(Scheduled("updateDuration")) <= 1
    /\ Cardinality(Scheduled("updatePredictions")) <= 1
    /\ \A t \in Scheduled("updateDuration") : t.id = durationInterval
    /\ \A t \in Scheduled("updatePredictions") : t.id = predictionInterval

\* startCIER has completed while the duration timer of an earlier start
\* was still scheduled, and a prediction timer is scheduled too.
C25_Witness ==
    /\ lastOp.op = "startCIER"
    /\ Len(lastOp.arg) = 1
    /\ lastOp.arg[1] # Null
    /\ Cardinality(Scheduled("updateDuration")) = 1
    /\ Cardinality(Scheduled("updatePredictions")) = 1

\* C30: every service event of the live list has a timestamp that is not
\* before the startTime of the current session.
C30_EventsNotBeforeStart ==
    startTime # Null
    => \A i \in 1..Len(serviceEvents) : serviceEvents[i].timestamp >= startTime

----------------------------------------------------------------------------
(* Claims about clearSession *)

\* C26: after clearSession the signal-strength list, the sky-position
\* list, the service events and the satellite tracks are empty, the grid
\* has 56 cells that all have count 0 and no satellite, the service state
\* is unknown, startTime is null and the three loaded totals are 0.
C26_ClearIsComplete ==
    lastOp.op = "clearSession"
    => /\ rssiReports = <<>>
       /\ svBeamReports = <<>>
       /\ serviceEvents = <<>>
       /\ satellites = <<>>
       /\ Cardinality(DOMAIN coverageGrid) = 56
       /\ \A key \in DOMAIN coverageGrid :
             coverageGrid[key].count = 0 /\ coverageGrid[key].satellites = <<>>
       /\ serviceState = [available |-> Null, lastChange |-> Null]
       /\ startTime = Null
       /\ loadedDuration = 0
       /\ loadedUptime = 0
       /\ loadedOutageCount = 0

\* clearSession has run on a survey in which every field it resets held
\* data, while logging goes on.
C26_Witness ==
    /\ lastOp.op = "clearSession"
    /\ lastOp.arg = <<TRUE>>
    /\ isLogging

----------------------------------------------------------------------------
(* Claims about recomputing the assessment *)

\* C27: calculateServiceUptime, calculateGridCoverage,
\* analyzeHorizonVisibility and getVerdict change no field of the store (the
\* service events keep their order and content), and called again on the
\* unchanged store at the same instant they return what they returned
\* before.
C27_RecomputationIsStateless ==
    [][ lastOp'.op = "calculateAssessment"
        => /\ UNCHANGED store
           /\ lastOp.op = "calculateAssessment" => probe' = probe ]_vars

\* The assessment has been computed, with service statistics, on a list of
\* service events that is not in the order of its timestamps.
C27_Witness ==
    /\ lastOp.op = "calculateAssessment"
    /\ ~probe.result[1].serviceStats.isNull
    /\ \E i, j \in 1..Len(serviceEvents) :
          i < j /\ serviceEvents[i].timestamp > serviceEvents[j].timestamp

----------------------------------------------------------------------------
(* Claims about the sky positions *)

\* C28: every sky position stored from ecefToElevAz has an elevation that
\* is a number of at least 0 degrees and an azimuth that is a number of at
\* least 0 and less than 360 degrees.
C28_AnglesInRange ==
    \A i \in 1..Len(svBeamReports) :
        /\ svBeamReports[i].elevation # NaN
        /\ svBeamReports[i].elevation >= 0
        /\ svBeamReports[i].azimuth # NaN
        /\ svBeamReports[i].azimuth >= 0
        /\ svBeamReports[i].azimuth < 3600

----------------------------------------------------------------------------
(* Claims about the bounds of the uptime *)

\* C29: whenever calculateServiceUptime returns statistics, the uptime is
\* at least 0 and at most the total time.
C29_UptimeWithinTotal ==
    ~calculateServiceUptime.isNull
    => /\ 0 <= calculateServiceUptime.uptimeMs
       /\ calculateServiceUptime.uptimeMs <= calculateServiceUptime.totalMs

----------------------------------------------------------------------------
(* Claims about the two readers of indicator lines *)

\* The count and the set of satellite IDs of every cell.
CellContents(grid) ==
    [k \in DOMAIN grid |-> [count |-> grid[k].count, satellites |-> Range(grid[k].satellites)]]

\* The tracked satellites with their sets of beams.
TrackedBeams(map) == {<<map[i].svId, Range(map[i].beams)>> : i \in 1..Len(map)}

\* The sequence of service-availability values.
AvailabilityValues(evs) == [i \in 1..Len(evs) |-> evs[i].available]

\* C31: importLogFile of a sequence of lines into an empty engine gives the
\* same cells (count and satellite set), the same tracked satellites with
\* the same beam sets and the same sequence of service-availability values
\* as processLine of the same lines one by one, for the same observer.
C31_ImportMatchesLive ==
    ( probe.fn = "processLines" /\ lastOp.op = "importLogFile" )
    => /\ CellContents(coverageGrid) = CellContents(probe.result[1].coverageGrid)
       /\ TrackedBeams(satellites) = TrackedBeams(probe.result[1].satellites)
       /\ AvailabilityValues(serviceEvents)
            = AvailabilityValues(probe.result[1].serviceEvents)

----------------------------------------------------------------------------
(* Claims about the elapsed time and the logging state *)

\* C32: across every step but clearSession, loadSession and a new page the
\* total elapsed survey time does not decrease; stopping and starting
\* logging again loses no time.
C32_ElapsedNeverDecreases ==
    [][ lastOp'.op \notin {"clearSession", "loadSession", "reload"}
        => TotalElapsedTime' >= TotalElapsedTime ]_vars

\* C33: the duration timer is scheduled exactly when isLogging is true: its
\* handle is not null if and only if isLogging is true.
C33_TimerIffLogging == (durationInterval # Null) <=> isLogging

\* C35: logging only goes on while the serial port is connected.
C35_LoggingImpliesConnected == isLogging => isConnected


\* C34: whenever isLogging is true, startTime is set (non-null), after any
\* sequence of start logging, stop logging, clearSession, loadSession and
\* log import.
C34_LoggingHasStartTime == isLogging => startTime # Null


----------------------------------------------------------------------------
(* Claims about the tracks and the position reports *)

\* The satellite numbers of the position reports, of the tracks and of the
\* cells' sets.
ReportedIds == { svBeamReports[i].svId : i \in 1..Len(svBeamReports) }

TrackedIds == { satellites[i].svId : i \in 1..Len(satellites) }

CellIds ==
    UNION { { coverageGrid[k].satellites[i] :
                i \in 1..Len(coverageGrid[k].satellites) } :
            k \in DOMAIN coverageGrid }

ReportsWithId(id) ==
    Cardinality({ i \in 1..Len(svBeamReports) : svBeamReports[i].svId = id })

TrackLength(id) ==
    IF MapHas(satellites, id) THEN Len(MapGet(satellites, id).reports) ELSE 0

\* C36: for every satellite number the track holds as many reports as
\* svBeamReports has entries with that number, and every satellite number in
\* a cell's set has a track.
C36_TracksMatchReports ==
    /\ \A id \in ReportedIds \cup TrackedIds : TrackLength(id) = ReportsWithId(id)
    /\ CellIds \subseteq TrackedIds


----------------------------------------------------------------------------
(* Claims about the order of the verdicts *)

\* Poor < Marginal < Adequate < Good < Excellent
VerdictRank(short) ==
    CASE short = "POOR" -> 0
      [] short = "MARGINAL" -> 1
      [] short = "ADEQUATE" -> 2
      [] short = "GOOD" -> 3
      [] short = "EXCELLENT" -> 4
      [] OTHER -> 0 - 1

\* The conditions of the four rules of getVerdict above Poor.
ExcellentRule(uptime, h) ==
    /\ uptime.num >= 95 * uptime.den /\ h.dirsClear >= 7
    /\ h.dirsBlocked = 0 /\ h.dirsSparse = 0

GoodRule(uptime, h) ==
    /\ uptime.num >= 90 * uptime.den /\ h.dirsClear >= 5
    /\ h.dirsBlocked = 0 /\ h.dirsSparse <= 1

AdequateRule(uptime, h) ==
    /\ uptime.num >= 80 * uptime.den /\ h.dirsBlocked <= 1
    /\ calculateHorizonScore(h) >= 50

MarginalRule(uptime, h) == uptime.num >= 60 * uptime.den /\ h.dirsBlocked <= 2

\* C37: with the direction counts fixed and at least 60 s of survey, a
\* lower uptime never gets a better verdict (Poor < Marginal < Adequate <
\* Good < Excellent), and an input that meets the condition of one rule
\* meets the condition of every later rule above Poor.
C37_VerdictMonotoneInUptime ==
    ( probe.fn = "getVerdict" /\ probe.result # <<>> /\ probe.args[2] >= 60000 )
    => LET totalMs == probe.args[2]
           h == HorizonAnalysis(SubSeq(probe.args, 3, 6))
           uptime == ServiceStats(probe.args[1], totalMs).percentage
       IN  /\ VerdictRank(probe.result[1].short) >= 0
           /\ \A u \in ProbeUptimes :
                 (u * totalMs) \div 1000 <= probe.args[1]
                 => VerdictRank(GetVerdictOf(ServiceStats((u * totalMs) \div 1000,
                                                         totalMs), h).short)
                      <= VerdictRank(probe.result[1].short)
           /\ ExcellentRule(uptime, h) => GoodRule(uptime, h)
           /\ GoodRule(uptime, h) => AdequateRule(uptime, h)
           /\ AdequateRule(uptime, h) => MarginalRule(uptime, h)

\* getVerdict has returned Good for an uptime of 95 % with 6 clear and 2
\* partial directions, the same directions getting Good at 90 %, Adequate
\* at 89.9 % and Poor at 59.9 %.
C37_Witness ==
    /\ probe.fn = "getVerdict"
    /\ probe.args = <<95000, 100000, 6, 2, 0, 0>>
    /\ probe.result # <<>>
    /\ probe.result[1].short = "GOOD"
    /\ GetVerdictOf(ServiceStats(90000, 100000), HorizonAnalysis(<<6, 2, 0, 0>>)).short
         = "GOOD"
    /\ GetVerdictOf(ServiceStats(89900, 100000), HorizonAnalysis(<<6, 2, 0, 0>>)).short
         = "ADEQUATE"
    /\ GetVerdictOf(ServiceStats(59900, 100000), HorizonAnalysis(<<6, 2, 0, 0>>)).short
         = "POOR"


----------------------------------------------------------------------------
(* Claims about the classes of the directions *)

\* Both horizon bands of direction d hold the minimum of observations for
\* the survey's duration.
BothBandsValid(d) ==
    \A el \in {0, 1} : coverageGrid[<<d, el>>].count >= MinObservations(TotalElapsedTime)

\* C38: the four totals of analyzeHorizonVisibility add up to 8; when some
\* direction has both horizon bands at the minimum or above, the largest
\* lowest-band count is above 0; so a direction is Blocked exactly when one
\* of its horizon bands is below the minimum.
C38_BlockedIffBandBelowMinimum ==
    /\ analyzeHorizonVisibility.dirsClear + analyzeHorizonVisibility.dirsPartial
         + analyzeHorizonVisibility.dirsSparse + analyzeHorizonVisibility.dirsBlocked
         = 8
    /\ (\E d \in 0..7 : BothBandsValid(d))
         => analyzeHorizonVisibility.maxLowestBandCount > 0
    /\ \A d \in 0..7 :
         analyzeHorizonVisibility.classification[d] = "blocked" <=> ~BothBandsValid(d)

\* Eight hours into the survey direction N has 40 observations in its 8-14
\* band and none in its 14-20 band and is Blocked; the seven others hold the
\* minimum in both bands and are not.
C38_Witness ==
    /\ TotalElapsedTime = 28800000
    /\ coverageGrid[<<0, 0>>].count = 40
    /\ coverageGrid[<<0, 1>>].count = 0
    /\ analyzeHorizonVisibility.classification[0] = "blocked"
    /\ \A d \in 1..7 : /\ BothBandsValid(d)
                        /\ analyzeHorizonVisibility.classification[d] # "blocked"
    /\ analyzeHorizonVisibility.dirsBlocked = 1


----------------------------------------------------------------------------
(* Claims about the covered cells as the survey goes on *)

\* A step of the session: neither clearSession nor loadSession nor a new page.
SessionGoesOn == lastOp'.op \notin {"clearSession", "loadSession", "reload"}

\* C39 as stated: within one session, without clearSession and loadSession,
\* the number of cells that calculateGridCoverage counts as covered
\* (cellsWithObs) never decreases as time passes and observations arrive.
C39_CoveredCellsNeverDecrease ==
    [][ SessionGoesOn
        => calculateGridCoverage'.cellsWithObs >= calculateGridCoverage.cellsWithObs ]_vars

\* C39: within one session, without clearSession and loadSession, the number
\* of cells counted as covered never decreases across a step that leaves the
\* elapsed time in the same band of the table (below 2 h: 3, below 8 h: 10,
\* below 24 h: 20, else 30).
C39_CoveredCellsGrowWithinBand ==
    [][ ( /\ SessionGoesOn
          /\ MinObservations(TotalElapsedTime') = MinObservations(TotalElapsedTime) )
        => calculateGridCoverage'.cellsWithObs >= calculateGridCoverage.cellsWithObs ]_vars

\* One hour into the survey a live observation has brought the 8-14 cell of
\* direction N to the minimum of 3, and all 16 horizon cells are counted.
C39_Witness ==
    /\ lastOp.op = "processLine"
    /\ TotalElapsedTime = 3600000
    /\ coverageGrid[<<0, 0>>].count = 3
    /\ calculateGridCoverage.minObsForValid = 3
    /\ calculateGridCoverage.cellsWithObs = 16


----------------------------------------------------------------------------
(* Claims about the report *)

\* The report's word for a class of analyzeHorizonVisibility.
TierOf(classification) ==
    CASE classification = "clear" -> "CLEAR"
      [] classification = "partial" -> "PARTIAL"
      [] classification = "sparse" -> "SPARSE"
      [] classification = "blocked" -> "BLOCKED"

\* C40: the tier exportReport writes for a direction is the class
\* analyzeHorizonVisibility gives that direction for the same grid and
\* elapsed time, so the per-direction lines of the report agree with the
\* totals of its Horizon Breakdown.
C40_ReportTiersMatchAnalysis ==
    ( lastOp.op = "exportReport" /\ probe.args[1] )
    => LET tiers == probe.result[1].tiers[1]
           breakdown == probe.result[1].breakdown[1]
       IN  /\ \A d \in 0..7 :
                 tiers[d] = TierOf(analyzeHorizonVisibility.classification[d])
           /\ breakdown.dirsClear = Cardinality({d \in 0..7 : tiers[d] = "CLEAR"})
           /\ breakdown.dirsPartial = Cardinality({d \in 0..7 : tiers[d] = "PARTIAL"})
           /\ breakdown.dirsSparse = Cardinality({d \in 0..7 : tiers[d] = "SPARSE"})
           /\ breakdown.dirsBlocked = Cardinality({d \in 0..7 : tiers[d] = "BLOCKED"})

\* A report in advanced mode, eight hours into the survey: direction N has
\* 100 observations in its 8-14 band and none in its 14-20 band and is
\* written BLOCKED; NE with 40 of the reference count of 100 is PARTIAL.
C40_Witness ==
    /\ lastOp.op = "exportReport"
    /\ probe.args[1]
    /\ TotalElapsedTime = 28800000
    /\ coverageGrid[<<0, 0>>].count = 100
    /\ coverageGrid[<<0, 1>>].count = 0
    /\ coverageGrid[<<1, 0>>].count = 40
    /\ probe.result[1].tiers[1][0] = "BLOCKED"
    /\ probe.result[1].tiers[1][1] = "PARTIAL"
    /\ probe.result[1].breakdown[1].dirsBlocked = 1

====
